---- MODULE Spec2Model ----
(***************************************************************************)
(* HelpNest API: refresh-session ledger with rotation, ticket-level access *)
(* control and the datastore they share.  Rows of a table are the elements *)
(* of a sequence; a row's id is its index.  Time is in milliseconds since  *)
(* the server started.                                                     *)
(***************************************************************************)
EXTENDS Integers, Sequences, FiniteSets, TLC

VARIABLES
  users,       \* "User" rows: [email, passwordHash, isSupportAgent]
  workspaces,  \* "Workspace" rows: [name, domain, kind]
  members,     \* "workspace_members" rows: set of [workspaceId, userId, role]
  tickets,     \* "tickets" rows with their "ticket_messages" (author ids)
  sessions,    \* "refresh_sessions" rows
  now,         \* the server clock, Date.now()
  tokenCount,  \* how many refresh tokens generateRefreshToken has drawn
  resp,        \* the response to the last request (none since a change made behind the API)
  okCount,     \* history: per presented refresh token, the refreshes answered 200
  req          \* requests in flight between two datastore calls, one slot per client

vars == <<users, workspaces, members, tickets, sessions, now, tokenCount, resp, okCount, req>>

-----------------------------------------------------------------------------
(* Bounds of the model *)

MaxSessions == 3
MaxTicks == 1
MaxTickets == 1
\* Rows of ticket_messages, over all tickets.
MaxMessages == 2
NumClients == 2
\* Tickets of the tenant whose list is paged.
MaxListed == 3

\* The clock advances in steps of eight days: a seven-day session is live
\* at the time it is created and expired one step later.
TickMs == 8 * 24 * 60 * 60 * 1000

-----------------------------------------------------------------------------
(* Program constants *)

REFRESH_EXPIRES_MS == 7 * 24 * 60 * 60 * 1000
ACCESS_TOKEN_TTL_SEC == 10 * 60

\* revoked_at is a nullable column; NullDate stands for SQL NULL.
NullDate == -1
\* A request without a refresh_token cookie (undefined or "", both falsy).
NoToken == 0
\* "No row": what findFirst/findUnique return as null.
NoRow == 0

StatusValues == {"OPEN", "PENDING", "RESOLVED", "CLOSED"}
PriorityValues == {"NONE", "LOW", "MEDIUM", "HIGH"}

-----------------------------------------------------------------------------
(* Token codec *)

\* crypto.randomBytes(32): the n-th draw; draws never repeat.
GenerateRefreshTokenRepeating(n) == 1
GenerateRefreshToken(n) == n + 1

\* SHA-256 of the token, hex: deterministic and collision-free on the tokens used.
HashRefreshToken(token) == <<"sha256", token>>

\* process.env.JWT_ACCESS_SECRET of the deployment.
JWT_ACCESS_SECRET == "0123456789abcdef"

\* jwt.sign({sub}, secret, {algorithm, expiresIn}): the claims the token binds,
\* the algorithm of its header and the key its signature was made with.
CreateAccessToken(userId, t) ==
  [sub |-> userId, exp |-> t + ACCESS_TOKEN_TTL_SEC * 1000,
   alg |-> "HS256", key |-> JWT_ACCESS_SECRET]

\* bcrypt.hashSync / bcrypt.compareSync
HashPassword(password) == <<"bcrypt", password>>
CompareSync(password, passwordHash) == passwordHash = HashPassword(password)

-----------------------------------------------------------------------------
(* Cookies and responses *)

NoCookie == <<"none">>
SetCookie(v) == <<"set", v>>
ClearCookie == <<"clear">>

Response(op, arg, caller, status, code, message) ==
  [op |-> op, arg |-> arg, caller |-> caller, status |-> status, code |-> code,
   message |-> message, access |-> NoCookie, refresh |-> NoCookie]

NoResponse == Response("none", 0, 0, 0, "", "")

\* What the caller observes of a response: everything but the model's own
\* record of which request it answers.
Observable(r) ==
  [status |-> r.status, code |-> r.code, message |-> r.message,
   access |-> r.access, refresh |-> r.refresh]

-----------------------------------------------------------------------------
(* Session ledger *)

\* prisma.refreshSession.findFirst({where: {refreshTokenHash: hash}})
FindFirstByHash(ss, hash) ==
  LET ids == {i \in 1..Len(ss) : ss[i].refreshTokenHash = hash}
  IN IF ids = {} THEN NoRow ELSE CHOOSE i \in ids : \A j \in ids : i <= j

\* The refresh handler's rejection test on the row it found.
SessionRejectedExpiryOnly(ss, id, t) ==
  \/ id = NoRow
  \/ ss[id].expiresAt < t
SessionRejectedRevokedOnly(ss, id, t) ==
  \/ id = NoRow
  \/ ss[id].revokedAt # NullDate
SessionRejected(ss, id, t) ==
  \/ id = NoRow
  \/ ss[id].revokedAt # NullDate
  \/ ss[id].expiresAt < t

\* A session is live when it is neither revoked nor expired.
Live(s, t) == s.revokedAt = NullDate /\ ~(s.expiresAt < t)

\* prisma.refreshSession.update({where: {id}, data: {revokedAt: new Date()}})
RevokeSessionNoop(ss, id, t) == ss
RevokeSession(ss, id, t) == [ss EXCEPT ![id].revokedAt = t]

\* prisma.refreshSession.updateMany({where: {refreshTokenHash}, data: {revokedAt}})
RevokeAllByHashNoop(ss, hash, t) == ss
RevokeAllByHash(ss, hash, t) ==
  [i \in 1..Len(ss) |->
     IF ss[i].refreshTokenHash = hash THEN [ss[i] EXCEPT !.revokedAt = t] ELSE ss[i]]

\* prisma.refreshSession.create in setAuthCookiesAndRespond
CreateSessionSingle(ss, userId, refreshTokenHash, t) ==
  Append([i \in 1..Len(ss) |->
            IF ss[i].userId = userId /\ ss[i].revokedAt = NullDate
            THEN [ss[i] EXCEPT !.revokedAt = t] ELSE ss[i]],
         [userId |-> userId, refreshTokenHash |-> refreshTokenHash,
          expiresAt |-> t + REFRESH_EXPIRES_MS, revokedAt |-> NullDate])
CreateSession(ss, userId, refreshTokenHash, t) ==
  Append(ss, [userId |-> userId, refreshTokenHash |-> refreshTokenHash,
              expiresAt |-> t + REFRESH_EXPIRES_MS, revokedAt |-> NullDate])

\* The response part of setAuthCookiesAndRespond.
AuthResponse(op, arg, userId, refreshToken, statusCode, t) ==
  [Response(op, arg, userId, statusCode, "", "") EXCEPT
     !.access = SetCookie(CreateAccessToken(userId, t)),
     !.refresh = SetCookie(refreshToken)]

-----------------------------------------------------------------------------
(* Seed data and request inputs *)

Email(local, domain) == [local |-> local, domain |-> domain]

ADMIN_EMAIL == Email("admin", "demo.local")
MEMBER_EMAIL == Email("member", "demo.local")
MEMBER2_EMAIL == Email("member2", "example.com")
ADMIN_PASSWORD == "Admin123!"
MEMBER_PASSWORD == "Member123!"

\* The ids the seed's rows get.
AdminId == 1
MemberId == 2
Member2Id == 3
SupportOpsId == 1
DemoWorkspaceId == 2
ExampleWorkspaceId == 3

SeedUsers ==
  << [email |-> ADMIN_EMAIL, passwordHash |-> HashPassword(ADMIN_PASSWORD), isSupportAgent |-> TRUE],
     [email |-> MEMBER_EMAIL, passwordHash |-> HashPassword(MEMBER_PASSWORD), isSupportAgent |-> FALSE],
     [email |-> MEMBER2_EMAIL, passwordHash |-> HashPassword(MEMBER_PASSWORD), isSupportAgent |-> FALSE] >>

NoDomain == ""

SeedWorkspaces ==
  << [name |-> "Support Ops", domain |-> NoDomain, kind |-> "SUPPORT_OPS"],
     [name |-> "demo.local", domain |-> "demo.local", kind |-> "CUSTOMER"],
     [name |-> "example.com", domain |-> "example.com", kind |-> "CUSTOMER"] >>

Member(workspaceId, userId, role) ==
  [workspaceId |-> workspaceId, userId |-> userId, role |-> role]

SeedMembers ==
  { Member(SupportOpsId, AdminId, "ADMIN"),
    Member(DemoWorkspaceId, MemberId, "MEMBER"),
    Member(ExampleWorkspaceId, Member2Id, "MEMBER") }

\* SUPPORT_AGENT_EMAIL_DOMAINS of the deployment.
SupportAgentEmailDomains == {"support.local"}

\* The requests the clients send.
SignupEmails == {Email("new", "Example.COM"), MEMBER_EMAIL}
LoginEmails == {MEMBER_EMAIL, Email("nobody", "demo.local")}
Passwords == {MEMBER_PASSWORD, "Wrong123!"}
ForgedToken == -7
\* A client presents no token, a token it made up, or one that was issued.
PresentedTokens(n) == {NoToken, ForgedToken} \cup (1..n)

-----------------------------------------------------------------------------
(* POST /auth/signup, /auth/login, /auth/refresh, /auth/logout *)

\* String.prototype.toLowerCase on the domains used.
ToLowerCase(str) ==
  CASE str = "Example.COM" -> "example.com"
    [] str = "Support.Local" -> "support.local"
    [] OTHER -> str

\* parseEmailDomain: null (NoDomain) when there is no "@" or nothing after it.
ParseEmailDomainAsTyped(email) == email.domain
ParseEmailDomain(email) == ToLowerCase(email.domain)

IsSupportAgentDomain(email) ==
  LET domain == ParseEmailDomain(email)
  IN domain # NoDomain /\ domain \in SupportAgentEmailDomains

\* prisma.user.findUnique({where: {email}})
FindUserByEmail(us, email) ==
  IF \E i \in 1..Len(us) : us[i].email = email
  THEN CHOOSE i \in 1..Len(us) : us[i].email = email
  ELSE NoRow

\* prisma.workspace.findUnique({where: {domain}})
FindWorkspaceByDomain(ws, domain) ==
  IF \E i \in 1..Len(ws) : ws[i].domain = domain
  THEN CHOOSE i \in 1..Len(ws) : ws[i].domain = domain
  ELSE NoRow

\* prisma.workspace.findFirst({where: {kind: SUPPORT_OPS}})
FindSupportOps(ws) ==
  LET ids == {i \in 1..Len(ws) : ws[i].kind = "SUPPORT_OPS"}
  IN IF ids = {} THEN NoRow ELSE CHOOSE i \in ids : \A j \in ids : i <= j

\* setAuthCookiesAndRespond: create the session row, sign the access token,
\* set both cookies, answer.
SetAuthCookiesAndRespond(ss, op, arg, userId, refreshToken, refreshTokenHash, statusCode, t) ==
  [sessions |-> CreateSession(ss, userId, refreshTokenHash, t),
   resp |-> AuthResponse(op, arg, userId, refreshToken, statusCode, t)]

\* The refresh handler's answer when the lookup fails.
RefreshRejectedTagged(tok, ss, id) ==
  IF id # NoRow /\ ss[id].revokedAt # NullDate
  THEN Response("refresh", tok, 0, 401, "TOKEN_REUSED", "Refresh token already used")
  ELSE Response("refresh", tok, 0, 401, "UNAUTHORIZED", "Invalid or expired refresh token")
RefreshRejected(tok, ss, id) ==
  Response("refresh", tok, 0, 401, "UNAUTHORIZED", "Invalid or expired refresh token")

RefreshHandlerClearsCookies(ss, n, t, tok) ==
  LET id == IF tok = NoToken THEN NoRow ELSE FindFirstByHash(ss, HashRefreshToken(tok))
  IN IF tok = NoToken \/ SessionRejected(ss, id, t)
     THEN [sessions |-> ss, tokenCount |-> n,
           resp |-> [RefreshRejected(tok, ss, id) EXCEPT
                       !.access = ClearCookie, !.refresh = ClearCookie]]
     ELSE
       LET newRefreshToken == GenerateRefreshToken(n)
           out == SetAuthCookiesAndRespond(RevokeSession(ss, id, t), "refresh", tok,
                    ss[id].userId, newRefreshToken, HashRefreshToken(newRefreshToken), 200, t)
       IN [sessions |-> out.sessions, tokenCount |-> n + 1, resp |-> out.resp]
\* A refresh that issues the new session and token to the user of the most
\* recent session in the ledger.
RefreshHandlerForLatestUser(ss, n, t, tok) ==
  LET id == IF tok = NoToken THEN NoRow ELSE FindFirstByHash(ss, HashRefreshToken(tok))
  IN IF tok = NoToken \/ SessionRejected(ss, id, t)
     THEN [sessions |-> ss, tokenCount |-> n,
           resp |-> IF tok = NoToken
                    THEN Response("refresh", tok, 0, 401, "UNAUTHORIZED", "Refresh token required")
                    ELSE RefreshRejected(tok, ss, id)]
     ELSE
       LET newRefreshToken == GenerateRefreshToken(n)
           out == SetAuthCookiesAndRespond(RevokeSession(ss, id, t), "refresh", tok,
                    ss[Len(ss)].userId, newRefreshToken, HashRefreshToken(newRefreshToken), 200, t)
       IN [sessions |-> out.sessions, tokenCount |-> n + 1, resp |-> out.resp]
RefreshHandler(ss, n, t, tok) ==
  IF tok = NoToken
  THEN [sessions |-> ss, tokenCount |-> n,
        resp |-> Response("refresh", tok, 0, 401, "UNAUTHORIZED", "Refresh token required")]
  ELSE
    LET hash == HashRefreshToken(tok)
        id == FindFirstByHash(ss, hash)
    IN IF SessionRejected(ss, id, t)
       THEN [sessions |-> ss, tokenCount |-> n, resp |-> RefreshRejected(tok, ss, id)]
       ELSE
         LET revoked == RevokeSession(ss, id, t)
             newRefreshToken == GenerateRefreshToken(n)
             out == SetAuthCookiesAndRespond(revoked, "refresh", tok, ss[id].userId,
                      newRefreshToken, HashRefreshToken(newRefreshToken), 200, t)
         IN [sessions |-> out.sessions, tokenCount |-> n + 1, resp |-> out.resp]

LoginHandlerNamesUnknownEmail(us, ss, n, t, email, password) ==
  LET uid == FindUserByEmail(us, email)
  IN IF uid = NoRow
     THEN [sessions |-> ss, tokenCount |-> n,
           resp |-> Response("login", 0, 0, 401, "INVALID_CREDENTIALS", "Unknown email")]
     ELSE IF ~CompareSync(password, us[uid].passwordHash)
     THEN [sessions |-> ss, tokenCount |-> n,
           resp |-> Response("login", 0, 0, 401, "INVALID_CREDENTIALS", "Invalid email or password")]
     ELSE
       LET refreshToken == GenerateRefreshToken(n)
           out == SetAuthCookiesAndRespond(ss, "login", 0, uid, refreshToken,
                    HashRefreshToken(refreshToken), 200, t)
       IN [sessions |-> out.sessions, tokenCount |-> n + 1, resp |-> out.resp]
LoginHandler(us, ss, n, t, email, password) ==
  LET uid == FindUserByEmail(us, email)
  IN IF uid = NoRow \/ ~CompareSync(password, us[uid].passwordHash)
     THEN [sessions |-> ss, tokenCount |-> n,
           resp |-> Response("login", 0, 0, 401, "INVALID_CREDENTIALS", "Invalid email or password")]
     ELSE
       LET refreshToken == GenerateRefreshToken(n)
           out == SetAuthCookiesAndRespond(ss, "login", 0, uid, refreshToken,
                    HashRefreshToken(refreshToken), 200, t)
       IN [sessions |-> out.sessions, tokenCount |-> n + 1, resp |-> out.resp]

LogoutHandlerKnownTokenOnly(ss, t, tok) ==
  LET known == tok # NoToken /\ FindFirstByHash(ss, HashRefreshToken(tok)) # NoRow
  IN [sessions |-> IF known THEN RevokeAllByHash(ss, HashRefreshToken(tok), t) ELSE ss,
      resp |-> IF known
               THEN [Response("logout", tok, 0, 200, "", "") EXCEPT
                       !.access = ClearCookie, !.refresh = ClearCookie]
               ELSE Response("logout", tok, 0, 200, "", "")]
LogoutHandler(ss, t, tok) ==
  [sessions |-> IF tok # NoToken THEN RevokeAllByHash(ss, HashRefreshToken(tok), t) ELSE ss,
   resp |-> [Response("logout", tok, 0, 200, "", "") EXCEPT
               !.access = ClearCookie, !.refresh = ClearCookie]]

\* The handler from user.create on: the user, the tenant of the domain, the
\* memberships, the session and the 201 answer.
SignupProvision(us, ws, ms, ss, n, t, email, password) ==
  LET domain == ParseEmailDomain(email)
      supportAgent == IsSupportAgentDomain(email)
      us1 == Append(us, [email |-> email, passwordHash |-> HashPassword(password),
                         isSupportAgent |-> supportAgent])
      uid == Len(us1)
      found == FindWorkspaceByDomain(ws, domain)
      ws1 == IF found = NoRow
             THEN Append(ws, [name |-> domain, domain |-> domain, kind |-> "CUSTOMER"])
             ELSE ws
      customerWorkspace == IF found = NoRow THEN Len(ws1) ELSE found
      ms1 == ms \cup {Member(customerWorkspace, uid, "MEMBER")}
      supportOps == FindSupportOps(ws1)
      ms2 == IF supportAgent /\ supportOps # NoRow
             THEN ms1 \cup {Member(supportOps, uid, "ADMIN")}
             ELSE ms1
      refreshToken == GenerateRefreshToken(n)
      out == SetAuthCookiesAndRespond(ss, "signup", 0, uid, refreshToken,
               HashRefreshToken(refreshToken), 201, t)
  IN [users |-> us1, workspaces |-> ws1, members |-> ms2,
      sessions |-> out.sessions, tokenCount |-> n + 1, resp |-> out.resp]

SignupHandler(us, ws, ms, ss, n, t, email, password) ==
  LET unchanged(r) == [users |-> us, workspaces |-> ws, members |-> ms,
                       sessions |-> ss, tokenCount |-> n, resp |-> r]
  IN IF FindUserByEmail(us, email) # NoRow
     THEN unchanged(Response("signup", 0, 0, 400, "EMAIL_TAKEN", "Email already registered"))
     ELSE IF ParseEmailDomain(email) = NoDomain
     THEN unchanged(Response("signup", 0, 0, 400, "VALIDATION_ERROR", "Invalid email format"))
     ELSE SignupProvision(us, ws, ms, ss, n, t, email, password)

-----------------------------------------------------------------------------
(* The server with one request at a time *)

NoRequest == [pc |-> "idle", token |-> NoToken, session |-> NoRow, userId |-> 0]

Init ==
  /\ users = SeedUsers
  /\ workspaces = SeedWorkspaces
  /\ members = SeedMembers
  /\ tickets = << >>
  /\ sessions = << >>
  /\ now = 0
  /\ tokenCount = 0
  /\ resp = NoResponse
  /\ okCount = [tok \in 1..MaxSessions |-> 0]
  /\ req = [c \in 1..NumClients |-> NoRequest]

Signup ==
  \E email \in SignupEmails :
    LET out == SignupHandler(users, workspaces, members, sessions, tokenCount, now,
                             email, MEMBER_PASSWORD)
    IN /\ Len(out.sessions) <= MaxSessions
       /\ users' = out.users
       /\ workspaces' = out.workspaces
       /\ members' = out.members
       /\ sessions' = out.sessions
       /\ tokenCount' = out.tokenCount
       /\ resp' = out.resp
       /\ UNCHANGED <<tickets, now, okCount, req>>

Login ==
  \E email \in LoginEmails, password \in Passwords :
    LET out == LoginHandler(users, sessions, tokenCount, now, email, password)
    IN /\ Len(out.sessions) <= MaxSessions
       /\ sessions' = out.sessions
       /\ tokenCount' = out.tokenCount
       /\ resp' = out.resp
       /\ UNCHANGED <<users, workspaces, members, tickets, now, okCount, req>>

Refresh ==
  \E tok \in PresentedTokens(tokenCount) :
    LET out == RefreshHandler(sessions, tokenCount, now, tok)
    IN /\ Len(out.sessions) <= MaxSessions
       /\ sessions' = out.sessions
       /\ tokenCount' = out.tokenCount
       /\ resp' = out.resp
       /\ okCount' = IF out.resp.status = 200
                     THEN [okCount EXCEPT ![tok] = @ + 1]
                     ELSE okCount
       /\ UNCHANGED <<users, workspaces, members, tickets, now, req>>

Logout ==
  \E tok \in PresentedTokens(tokenCount) :
    LET out == LogoutHandler(sessions, now, tok)
    IN /\ sessions' = out.sessions
       /\ resp' = out.resp
       /\ UNCHANGED <<users, workspaces, members, tickets, now, tokenCount, okCount, req>>

Tick ==
  /\ now < MaxTicks * TickMs
  /\ now' = now + TickMs
  /\ UNCHANGED <<users, workspaces, members, tickets, sessions, tokenCount, resp, okCount, req>>

Next == Signup \/ Login \/ Refresh \/ Logout \/ Tick

Spec == Init /\ [][Next]_vars

-----------------------------------------------------------------------------
(* The refresh handler step by step: its three datastore calls are separate *)
(* awaits, and requests of several clients interleave between them.         *)

RaceLogin ==
  LET out == LoginHandler(users, sessions, tokenCount, now, MEMBER_EMAIL, MEMBER_PASSWORD)
  IN /\ Len(out.sessions) <= MaxSessions
     /\ sessions' = out.sessions
     /\ tokenCount' = out.tokenCount
     /\ resp' = out.resp
     /\ UNCHANGED <<users, workspaces, members, tickets, now, okCount, req>>

\* The cookie check and findFirst; a rejected request is answered at once.
RaceFind(c) ==
  /\ req[c].pc = "idle"
  /\ \E tok \in PresentedTokens(tokenCount) :
       LET id == IF tok = NoToken THEN NoRow
                 ELSE FindFirstByHash(sessions, HashRefreshToken(tok))
       IN IF tok = NoToken \/ SessionRejected(sessions, id, now)
          THEN /\ resp' = RefreshHandler(sessions, tokenCount, now, tok).resp
               /\ UNCHANGED req
          ELSE /\ req' = [req EXCEPT ![c] = [pc |-> "found", token |-> tok,
                                             session |-> id, userId |-> sessions[id].userId]]
               /\ UNCHANGED resp
  /\ UNCHANGED <<users, workspaces, members, tickets, sessions, now, tokenCount, okCount>>

\* refreshSession.update: revoke the row found, whatever its state is by now.
RaceRevoke(c) ==
  /\ req[c].pc = "found"
  /\ sessions' = RevokeSession(sessions, req[c].session, now)
  /\ req' = [req EXCEPT ![c].pc = "revoked"]
  /\ UNCHANGED <<users, workspaces, members, tickets, now, tokenCount, resp, okCount>>

\* generateRefreshToken and setAuthCookiesAndRespond.
RaceCreate(c) ==
  /\ req[c].pc = "revoked"
  /\ Len(sessions) < MaxSessions
  /\ LET newRefreshToken == GenerateRefreshToken(tokenCount)
         out == SetAuthCookiesAndRespond(sessions, "refresh", req[c].token, req[c].userId,
                  newRefreshToken, HashRefreshToken(newRefreshToken), 200, now)
     IN /\ sessions' = out.sessions
        /\ resp' = out.resp
        /\ tokenCount' = tokenCount + 1
        /\ okCount' = [okCount EXCEPT ![req[c].token] = @ + 1]
  /\ req' = [req EXCEPT ![c] = NoRequest]
  /\ UNCHANGED <<users, workspaces, members, tickets, now>>

RaceNext ==
  \/ RaceLogin
  \/ \E c \in 1..NumClients : RaceFind(c)
  \/ \E c \in 1..NumClients : RaceRevoke(c)
  \/ \E c \in 1..NumClients : RaceCreate(c)

RaceSpec == Init /\ [][RaceNext]_vars

-----------------------------------------------------------------------------
(* Properties of the refresh rotation *)

IssuedTokens == 1..tokenCount
SessionOf(tok) == FindFirstByHash(sessions, HashRefreshToken(tok))
RefreshNow(tok) == RefreshHandler(sessions, tokenCount, now, tok)
Issues(r) == r.status \in {200, 201} /\ r.refresh # NoCookie /\ r.refresh # ClearCookie
IssuedBy(r) == r.refresh[2]

\* C1: with one request at a time, a refresh token issued by signup or login
\* is accepted by refresh exactly once.  The token just issued belongs to an
\* unrevoked session and has not been accepted yet; a refresh presenting an
\* issued token whose session is live is answered 200, and one is refused
\* (with 401) only when the session is revoked or expired; once a refresh has
\* accepted a token its session is revoked, every further refresh presenting
\* it is answered 401, and no token is ever accepted twice.
C1_RefreshAcceptedExactlyOnce ==
  /\ (resp.op \in {"signup", "login"} /\ Issues(resp)) =>
       /\ IssuedBy(resp) \in IssuedTokens
       /\ okCount[IssuedBy(resp)] = 0
       /\ sessions[SessionOf(IssuedBy(resp))].revokedAt = NullDate
       /\ sessions[SessionOf(IssuedBy(resp))].userId = resp.caller
  /\ (resp.op = "refresh" /\ resp.arg \in IssuedTokens) =>
       /\ resp.status \in {200, 401}
       /\ resp.code = (IF resp.status = 401 THEN "UNAUTHORIZED" ELSE "")
       /\ resp.status = 401 => ~Live(sessions[SessionOf(resp.arg)], now)
  /\ \A tok \in IssuedTokens :
       /\ SessionOf(tok) # NoRow
       /\ Live(sessions[SessionOf(tok)], now) =>
            (okCount[tok] = 0 /\ RefreshNow(tok).resp.status = 200)
       /\ okCount[tok] <= 1
       /\ okCount[tok] = 1 =>
            /\ sessions[SessionOf(tok)].revokedAt # NullDate
            /\ RefreshNow(tok).resp.status = 401

\* C1 witness: a token issued by login was accepted once and the same token,
\* presented again, has just been refused.
C1_Witness ==
  /\ resp.op = "refresh" /\ resp.status = 401
  /\ resp.arg \in IssuedTokens
  /\ okCount[resp.arg] = 1
  /\ sessions[SessionOf(resp.arg)].userId = MemberId

\* C2: however the datastore steps of concurrent refresh requests interleave,
\* one presented token is accepted by at most one of them.
C2_AtMostOneWinner == \A tok \in IssuedTokens : okCount[tok] <= 1

\* C3: along a rotation chain, when a refresh presenting T1 has issued T2, T1
\* is refused from then on and T2 is a new token, not yet accepted, of the
\* same user, which the next refresh presenting it accepts unless its session
\* has expired meanwhile; a token that a refresh has accepted, at whatever
\* depth of the chain, is refused ever after and was accepted once only.
C3_RotationChain ==
  /\ (resp.op = "refresh" /\ Issues(resp)) =>
       LET T1 == resp.arg
           T2 == IssuedBy(resp)
       IN /\ T2 \in IssuedTokens /\ T2 # T1
          /\ okCount[T1] = 1 /\ okCount[T2] = 0
          /\ RefreshNow(T1).resp.status = 401
          /\ RefreshNow(T2).resp.status =
               (IF sessions[SessionOf(T2)].expiresAt < now THEN 401 ELSE 200)
          /\ sessions[SessionOf(T2)].userId = sessions[SessionOf(T1)].userId
  /\ \A tok \in IssuedTokens :
       okCount[tok] >= 1 => (okCount[tok] = 1 /\ RefreshNow(tok).resp.status = 401)

\* C3 witness: a chain of length two, T1 -> T2 -> T3: the token being rotated
\* was itself issued by a refresh.
C3_Witness ==
  /\ resp.op = "refresh" /\ Issues(resp)
  /\ \E tok \in IssuedTokens : tok < resp.arg /\ okCount[tok] = 1 /\ okCount[resp.arg] = 1
  /\ Len(sessions) >= 3

\* C4: a refresh presenting a token whose session is revoked or expired gets
\* the same observable response, and has the same effect on the ledger, as a
\* refresh presenting a token that matches no session.
C4_FailureModesIndistinguishable ==
  \A tok \in IssuedTokens :
    ~Live(sessions[SessionOf(tok)], now) =>
      /\ Observable(RefreshNow(tok).resp) = Observable(RefreshNow(ForgedToken).resp)
      /\ RefreshNow(tok).sessions = RefreshNow(ForgedToken).sessions
      /\ RefreshNow(tok).resp.status = 401

\* C4 witness: a revoked and an expired session both exist and a refresh
\* presenting a dead token has just been refused.
C4_Witness ==
  /\ resp.op = "refresh" /\ resp.status = 401 /\ resp.arg \in IssuedTokens
  /\ \E i \in 1..Len(sessions) : sessions[i].revokedAt # NullDate
  /\ \E i \in 1..Len(sessions) : sessions[i].revokedAt = NullDate /\ sessions[i].expiresAt < now

\* C5: a refresh that fails (cookie missing, token unknown, session revoked,
\* session expired) is answered 401, leaves the session ledger as it was and
\* sets no cookie; and each of those four cases does fail.
C5_FailedRefreshChangesNothing ==
  [][ Refresh =>
        /\ \/ resp'.status = 200
           \/ /\ resp'.status = 401
              /\ sessions' = sessions
              /\ tokenCount' = tokenCount
              /\ resp'.access = NoCookie /\ resp'.refresh = NoCookie
        /\ ( \/ resp'.arg \in {NoToken, ForgedToken}
             \/ ~Live(sessions[SessionOf(resp'.arg)], now) ) => resp'.status = 401
    ]_vars

\* C5 witness: a refresh without cookie has been refused while a live session exists.
C5_Witness ==
  /\ resp.op = "refresh" /\ resp.status = 401 /\ resp.arg = NoToken
  /\ \E i \in 1..Len(sessions) : Live(sessions[i], now)

-----------------------------------------------------------------------------
(* Ticket-level access control: GET /tickets/:id, POST /tickets/:id/messages, *)
(* PATCH /tickets/:id, POST /workspaces/:id/tickets                            *)

\* A field the request body leaves out (undefined).
Absent == "ABSENT"
NoRole == "NONE"

\* isSupportAgent: an ADMIN membership in a SUPPORT_OPS workspace.
IsSupportAgentByFlag(ws, ms, userId) == users[userId].isSupportAgent
IsSupportAgentAnyRole(ws, ms, userId) ==
  \E m \in ms : m.userId = userId /\ ws[m.workspaceId].kind = "SUPPORT_OPS"
IsSupportAgent(ws, ms, userId) ==
  \E m \in ms :
    /\ m.userId = userId
    /\ m.role = "ADMIN"
    /\ ws[m.workspaceId].kind = "SUPPORT_OPS"

\* prisma.workspaceMember.findUnique({where: {workspaceId_userId}}): the role, or NoRole.
FindMembership(ms, workspaceId, userId) ==
  LET rows == {m \in ms : m.workspaceId = workspaceId /\ m.userId = userId}
  IN IF rows = {} THEN NoRole ELSE (CHOOSE m \in rows : TRUE).role

\* prisma.ticket.findUnique({where: {id}})
FindTicket(tk, ticketId) == IF ticketId \in 1..Len(tk) THEN ticketId ELSE NoRow

\* getTicketWithAccessCheck: the ticket's id when the caller may read it, else NoRow (null).
GetTicketWithAccessCheckAnyMember(tk, ws, ms, ticketId, userId, agent) ==
  IF FindTicket(tk, ticketId) = NoRow THEN NoRow
  ELSE IF agent /\ ws[tk[ticketId].workspaceId].kind = "CUSTOMER" THEN ticketId
  ELSE IF FindMembership(ms, tk[ticketId].workspaceId, userId) = NoRole THEN NoRow
  ELSE ticketId
GetTicketWithAccessCheck(tk, ws, ms, ticketId, userId, agent) ==
  IF FindTicket(tk, ticketId) = NoRow THEN NoRow
  ELSE IF agent /\ ws[tk[ticketId].workspaceId].kind = "CUSTOMER" THEN ticketId
  ELSE
    LET role == FindMembership(ms, tk[ticketId].workspaceId, userId)
    IN IF role = NoRole THEN NoRow
       ELSE IF role = "ADMIN" THEN ticketId
       ELSE IF role = "MEMBER" /\ tk[ticketId].createdByUserId = userId THEN ticketId
       ELSE NoRow

\* getTicketForAdminUpdate: the ticket's id when the caller may patch it, else NoRow.
GetTicketForAdminUpdateAsRead(tk, ws, ms, ticketId, userId, agent) ==
  GetTicketWithAccessCheck(tk, ws, ms, ticketId, userId, agent)
GetTicketForAdminUpdate(tk, ws, ms, ticketId, userId, agent) ==
  IF FindTicket(tk, ticketId) = NoRow THEN NoRow
  ELSE IF agent /\ ws[tk[ticketId].workspaceId].kind = "CUSTOMER" THEN ticketId
  ELSE IF FindMembership(ms, tk[ticketId].workspaceId, userId) # "ADMIN" THEN NoRow
  ELSE ticketId

TicketNotFound(op, ticketId, userId) ==
  Response(op, ticketId, userId, 404, "NOT_FOUND", "Ticket not found")

\* GET /tickets/:ticketId
GetTicketHandlerForbidden(tk, ws, ms, userId, ticketId) ==
  LET agent == IsSupportAgent(ws, ms, userId)
      ticket == GetTicketWithAccessCheck(tk, ws, ms, ticketId, userId, agent)
  IN IF FindTicket(tk, ticketId) = NoRow
     THEN TicketNotFound("getTicket", ticketId, userId)
     ELSE IF ticket = NoRow
     THEN Response("getTicket", ticketId, userId, 403, "FORBIDDEN", "Not allowed")
     ELSE Response("getTicket", ticketId, userId, 200, "", "")
GetTicketHandler(tk, ws, ms, userId, ticketId) ==
  LET agent == IsSupportAgent(ws, ms, userId)
      ticket == GetTicketWithAccessCheck(tk, ws, ms, ticketId, userId, agent)
  IN IF ticket = NoRow
     THEN TicketNotFound("getTicket", ticketId, userId)
     ELSE Response("getTicket", ticketId, userId, 200, "", "")

\* The closed-ticket gate of the reply handler.
ReplyBlockedNever(tk, ms, ticket, userId, agent) == FALSE
ReplyBlocked(tk, ms, ticket, userId, agent) ==
  /\ tk[ticket].status = "CLOSED"
  /\ ~agent
  /\ FindMembership(ms, tk[ticket].workspaceId, userId) # "ADMIN"

\* A reply handler whose closed-ticket gate runs on the ticket row before the
\* access check.
ReplyHandlerGateFirst(tk, ws, ms, t, userId, ticketId, message) ==
  LET agent == IsSupportAgent(ws, ms, userId)
      ticket == GetTicketWithAccessCheck(tk, ws, ms, ticketId, userId, agent)
  IN IF message = ""
     THEN [tickets |-> tk,
           resp |-> Response("reply", ticketId, userId, 400, "VALIDATION_ERROR", "Message is required")]
     ELSE IF FindTicket(tk, ticketId) # NoRow /\ ReplyBlocked(tk, ms, ticketId, userId, agent)
     THEN [tickets |-> tk,
           resp |-> Response("reply", ticketId, userId, 403, "TICKET_CLOSED",
                             "This ticket is closed. New replies are not allowed.")]
     ELSE IF ticket = NoRow
     THEN [tickets |-> tk, resp |-> TicketNotFound("reply", ticketId, userId)]
     ELSE [tickets |-> [tk EXCEPT ![ticketId].messages = Append(@, userId),
                                  ![ticketId].updatedAt = t],
           resp |-> Response("reply", ticketId, userId, 201, "", "")]
\* POST /tickets/:ticketId/messages
ReplyHandler(tk, ws, ms, t, userId, ticketId, message) ==
  LET agent == IsSupportAgent(ws, ms, userId)
      ticket == GetTicketWithAccessCheck(tk, ws, ms, ticketId, userId, agent)
  IN IF message = ""
     THEN [tickets |-> tk,
           resp |-> Response("reply", ticketId, userId, 400, "VALIDATION_ERROR", "Message is required")]
     ELSE IF ticket = NoRow
     THEN [tickets |-> tk, resp |-> TicketNotFound("reply", ticketId, userId)]
     ELSE IF ReplyBlocked(tk, ms, ticket, userId, agent)
     THEN [tickets |-> tk,
           resp |-> Response("reply", ticketId, userId, 403, "TICKET_CLOSED",
                             "This ticket is closed. New replies are not allowed.")]
     ELSE [tickets |-> [tk EXCEPT ![ticketId].messages = Append(@, userId),
                                  ![ticketId].updatedAt = t],
           resp |-> Response("reply", ticketId, userId, 201, "", "")]

\* PATCH /tickets/:ticketId
PatchHandler(tk, ws, ms, t, userId, ticketId, body) ==
  LET agent == IsSupportAgent(ws, ms, userId)
      ticket == GetTicketForAdminUpdate(tk, ws, ms, ticketId, userId, agent)
  IN IF body.status = Absent /\ body.priority = Absent
     THEN [tickets |-> tk,
           resp |-> Response("patch", ticketId, userId, 400, "VALIDATION_ERROR",
                             "At least one of status or priority must be provided")]
     ELSE IF ticket = NoRow
     THEN [tickets |-> tk, resp |-> TicketNotFound("patch", ticketId, userId)]
     ELSE [tickets |->
             [tk EXCEPT ![ticketId].status = IF body.status # Absent THEN body.status ELSE @,
                        ![ticketId].priority = IF body.priority # Absent THEN body.priority ELSE @,
                        ![ticketId].updatedAt = t],
           resp |-> Response("patch", ticketId, userId, 200, "", "")]

\* requireWorkspaceMember: the caller's effective role in the workspace, or the
\* status it answers with (404 no such workspace, 403 not a member).
RequireWorkspaceMemberHidesTenant(ws, ms, workspaceId, userId) ==
  IF workspaceId \notin 1..Len(ws) THEN [status |-> 404, role |-> NoRole]
  ELSE IF IsSupportAgent(ws, ms, userId) /\ ws[workspaceId].kind = "CUSTOMER"
  THEN [status |-> 200, role |-> "ADMIN"]
  ELSE
    LET role == FindMembership(ms, workspaceId, userId)
    IN IF role = NoRole THEN [status |-> 404, role |-> NoRole]
       ELSE [status |-> 200, role |-> role]
\* A resolver that takes the stored membership row first and synthesizes the
\* ADMIN role only for agents without one.
RequireWorkspaceMemberRowFirst(ws, ms, workspaceId, userId) ==
  IF workspaceId \notin 1..Len(ws) THEN [status |-> 404, role |-> NoRole]
  ELSE
    LET role == FindMembership(ms, workspaceId, userId)
    IN IF role # NoRole THEN [status |-> 200, role |-> role]
       ELSE IF IsSupportAgent(ws, ms, userId) /\ ws[workspaceId].kind = "CUSTOMER"
       THEN [status |-> 200, role |-> "ADMIN"]
       ELSE [status |-> 403, role |-> NoRole]
RequireWorkspaceMember(ws, ms, workspaceId, userId) ==
  IF workspaceId \notin 1..Len(ws) THEN [status |-> 404, role |-> NoRole]
  ELSE IF IsSupportAgent(ws, ms, userId) /\ ws[workspaceId].kind = "CUSTOMER"
  THEN [status |-> 200, role |-> "ADMIN"]
  ELSE
    LET role == FindMembership(ms, workspaceId, userId)
    IN IF role = NoRole THEN [status |-> 403, role |-> NoRole]
       ELSE [status |-> 200, role |-> role]

\* POST /workspaces/:workspaceId/tickets: the ticket and its first message in one transaction.
CreateTicketHandler(tk, ws, ms, t, userId, workspaceId, title) ==
  LET membership == RequireWorkspaceMember(ws, ms, workspaceId, userId)
  IN IF membership.status = 404
     THEN [tickets |-> tk,
           resp |-> Response("createTicket", workspaceId, userId, 404, "NOT_FOUND", "Workspace not found")]
     ELSE IF membership.status = 403
     THEN [tickets |-> tk,
           resp |-> Response("createTicket", workspaceId, userId, 403, "FORBIDDEN",
                             "Not a member of this workspace")]
     ELSE IF title = ""
     THEN [tickets |-> tk,
           resp |-> Response("createTicket", workspaceId, userId, 400, "VALIDATION_ERROR",
                             "Title is required")]
     ELSE [tickets |-> Append(tk, [workspaceId |-> workspaceId, createdByUserId |-> userId,
                                   title |-> title,
                                   status |-> "OPEN", priority |-> "NONE",
                                   createdAt |-> t, updatedAt |-> t,
                                   messages |-> <<userId>>]),
           resp |-> Response("createTicket", workspaceId, userId, 201, "", "")]

\* prisma.workspaceMember.upsert, as the seed script and the operators of the
\* deployment use it: the role of (workspaceId, userId) becomes `role`.
UpsertMember(ms, m) ==
  {x \in ms : ~(x.workspaceId = m.workspaceId /\ x.userId = m.userId)} \cup {m}

-----------------------------------------------------------------------------
(* The ticket endpoints, one request at a time *)

Callers == {AdminId, MemberId, Member2Id}

\* Role changes made while the server runs.
RoleChanges ==
  { Member(DemoWorkspaceId, Member2Id, "MEMBER"), Member(DemoWorkspaceId, Member2Id, "ADMIN"),
    Member(SupportOpsId, AdminId, "MEMBER"), Member(SupportOpsId, AdminId, "ADMIN") }

\* Where the callers open tickets: in their own tenant, in a tenant they do
\* not belong to, and in a workspace that does not exist.
CreateInputs ==
  { <<MemberId, DemoWorkspaceId>>, <<Member2Id, ExampleWorkspaceId>>,
    <<AdminId, SupportOpsId>>, <<MemberId, ExampleWorkspaceId>>, <<MemberId, 4>> }

\* Titles that pass createTicketSchema.
CreateTitles == {"Cannot log in"}

\* Bodies that pass replyMessageSchema and patchTicketSchema.
ReplyBodies == {"Any news?"}

PatchBodies ==
  { [status |-> "CLOSED", priority |-> Absent],
    [status |-> "OPEN", priority |-> "HIGH"],
    [status |-> Absent, priority |-> "NONE"] }

\* Ticket ids a caller may name: the existing ones and one that does not exist.
TicketIds(tk) == 1..(Len(tk) + 1)

RECURSIVE MessageRowsUpTo(_, _)
MessageRowsUpTo(tk, n) == IF n = 0 THEN 0 ELSE Len(tk[n].messages) + MessageRowsUpTo(tk, n - 1)
\* The number of rows of ticket_messages.
MessageRows(tk) == MessageRowsUpTo(tk, Len(tk))

SetRole ==
  \E m \in RoleChanges :
    /\ members' = UpsertMember(members, m)
    /\ resp' = NoResponse
    /\ UNCHANGED <<users, workspaces, tickets, sessions, now, tokenCount, okCount, req>>

CreateTicket ==
  \E in \in CreateInputs, title \in CreateTitles :
    LET out == CreateTicketHandler(tickets, workspaces, members, now, in[1], in[2], title)
    IN /\ Len(out.tickets) <= MaxTickets
       /\ MessageRows(out.tickets) <= MaxMessages
       /\ tickets' = out.tickets
       /\ resp' = out.resp
       /\ UNCHANGED <<users, workspaces, members, sessions, now, tokenCount, okCount, req>>

GetTicket ==
  \E userId \in Callers, ticketId \in TicketIds(tickets) :
    /\ resp' = GetTicketHandler(tickets, workspaces, members, userId, ticketId)
    /\ UNCHANGED <<users, workspaces, members, tickets, sessions, now, tokenCount, okCount, req>>

Reply ==
  \E userId \in Callers, ticketId \in TicketIds(tickets), message \in ReplyBodies :
    LET out == ReplyHandler(tickets, workspaces, members, now, userId, ticketId, message)
    IN /\ MessageRows(out.tickets) <= MaxMessages
       /\ tickets' = out.tickets
       /\ resp' = out.resp
       /\ UNCHANGED <<users, workspaces, members, sessions, now, tokenCount, okCount, req>>

Patch ==
  \E userId \in Callers, ticketId \in TicketIds(tickets), body \in PatchBodies :
    LET out == PatchHandler(tickets, workspaces, members, now, userId, ticketId, body)
    IN /\ tickets' = out.tickets
       /\ resp' = out.resp
       /\ UNCHANGED <<users, workspaces, members, sessions, now, tokenCount, okCount, req>>

TicketNext == SetRole \/ CreateTicket \/ GetTicket \/ Reply \/ Patch

TicketSpec == Init /\ [][TicketNext]_vars

-----------------------------------------------------------------------------
(* Properties of the ticket endpoints *)

ExistingTickets == 1..Len(tickets)
MissingTicket == Len(tickets) + 1
RoleIn(userId, workspaceId) == FindMembership(members, workspaceId, userId)
TenantOf(ticketId) == tickets[ticketId].workspaceId
KindOf(ticketId) == workspaces[TenantOf(ticketId)].kind
CreatorOf(ticketId) == tickets[ticketId].createdByUserId

\* The access policy, stated on the stored rows.
Elevated(userId) ==
  \E w \in 1..Len(workspaces) :
    workspaces[w].kind = "SUPPORT_OPS" /\ RoleIn(userId, w) = "ADMIN"
AdminOf(userId, ticketId) ==
  \/ RoleIn(userId, TenantOf(ticketId)) = "ADMIN"
  \/ Elevated(userId) /\ KindOf(ticketId) = "CUSTOMER"
MemberOnly(userId, ticketId) ==
  RoleIn(userId, TenantOf(ticketId)) = "MEMBER" /\ ~AdminOf(userId, ticketId)
MayRead(userId, ticketId) ==
  AdminOf(userId, ticketId) \/ (MemberOnly(userId, ticketId) /\ CreatorOf(ticketId) = userId)

GetNow(userId, ticketId) ==
  GetTicketHandler(tickets, workspaces, members, userId, ticketId)
ReplyNow(userId, ticketId, message) ==
  ReplyHandler(tickets, workspaces, members, now, userId, ticketId, message)
PatchNow(userId, ticketId, body) ==
  PatchHandler(tickets, workspaces, members, now, userId, ticketId, body)

Replied(userId, ticketId) ==
  [tickets EXCEPT ![ticketId].messages = Append(@, userId), ![ticketId].updatedAt = now]

\* C6: ownership isolation.  A caller whose only role in a ticket's tenant is
\* MEMBER reads the ticket (200) iff they created it, and their reply passes
\* the access check iff they created it (it is then added as one message,
\* unless the ticket is CLOSED, see C9); for a ticket created by another user
\* of the tenant GET and reply are both answered 404 NOT_FOUND and no message
\* is added.
C6_OwnershipIsolation ==
  /\ ( /\ resp.op \in {"getTicket", "reply"}
       /\ resp.arg \in ExistingTickets
       /\ MemberOnly(resp.caller, resp.arg)
       /\ CreatorOf(resp.arg) # resp.caller ) =>
         (resp.status = 404 /\ resp.code = "NOT_FOUND")
  /\ \A userId \in Callers, ticketId \in ExistingTickets, message \in ReplyBodies :
    MemberOnly(userId, ticketId) =>
      LET get == GetNow(userId, ticketId)
          reply == ReplyNow(userId, ticketId, message)
      IN /\ (get.status = 200) <=> (CreatorOf(ticketId) = userId)
         /\ (reply.resp.status # 404) <=> (CreatorOf(ticketId) = userId)
         /\ (CreatorOf(ticketId) = userId /\ tickets[ticketId].status # "CLOSED") =>
              (reply.resp.status = 201 /\ reply.tickets = Replied(userId, ticketId))
         /\ CreatorOf(ticketId) # userId =>
              /\ get.status = 404 /\ get.code = "NOT_FOUND"
              /\ reply.resp.status = 404 /\ reply.resp.code = "NOT_FOUND"
              /\ reply.tickets = tickets

\* C6 witness: a MEMBER of the tenant has just been refused a reply to a
\* ticket that another MEMBER of the same tenant created.
C6_Witness ==
  /\ resp.op = "reply" /\ resp.status = 404
  /\ resp.arg \in ExistingTickets
  /\ MemberOnly(resp.caller, resp.arg)
  /\ MemberOnly(CreatorOf(resp.arg), resp.arg)
  /\ CreatorOf(resp.arg) # resp.caller
  /\ Len(tickets[resp.arg].messages) = 1

\* C7: a user with an ADMIN membership in the operations tenant reads and
\* patches every ticket of a CUSTOMER tenant, with or without a membership
\* row there; a user with neither that operations membership nor a
\* membership row in the ticket's CUSTOMER tenant can neither read nor patch
\* it, and naming a real CUSTOMER tenant's id in a workspace route gets such
\* a user 403 where the operations ADMIN is let in as ADMIN.
C7_ElevatedAgentAccess ==
  /\ ( /\ resp.op \in {"getTicket", "patch"}
       /\ resp.arg \in ExistingTickets
       /\ KindOf(resp.arg) = "CUSTOMER" ) =>
         /\ RoleIn(resp.caller, SupportOpsId) = "ADMIN" => resp.status = 200
         /\ ( /\ RoleIn(resp.caller, SupportOpsId) # "ADMIN"
              /\ RoleIn(resp.caller, TenantOf(resp.arg)) = NoRole ) => resp.status = 404
  /\ \A userId \in Callers, ticketId \in ExistingTickets, body \in PatchBodies :
    KindOf(ticketId) = "CUSTOMER" =>
      LET get == GetNow(userId, ticketId)
          patch == PatchNow(userId, ticketId, body)
      IN /\ RoleIn(userId, SupportOpsId) = "ADMIN" =>
              /\ get.status = 200
              /\ patch.resp.status = 200
              /\ body.status # Absent => patch.tickets[ticketId].status = body.status
              /\ body.priority # Absent => patch.tickets[ticketId].priority = body.priority
              /\ patch.tickets[ticketId].messages = tickets[ticketId].messages
         /\ (RoleIn(userId, SupportOpsId) # "ADMIN" /\ RoleIn(userId, TenantOf(ticketId)) = NoRole) =>
              /\ get.status = 404
              /\ patch.resp.status = 404
              /\ patch.tickets = tickets
  /\ \A userId \in Callers, w \in 1..Len(workspaces) :
    workspaces[w].kind = "CUSTOMER" =>
      LET membership == RequireWorkspaceMember(workspaces, members, w, userId)
      IN /\ RoleIn(userId, SupportOpsId) = "ADMIN" =>
              (membership.status = 200 /\ membership.role = "ADMIN")
         /\ (RoleIn(userId, SupportOpsId) # "ADMIN" /\ RoleIn(userId, w) = NoRole) =>
              membership.status = 403

\* C7 witness: an operations ADMIN without a membership row in the ticket's
\* CUSTOMER tenant has just closed the ticket by PATCH.
C7_Witness ==
  /\ resp.op = "patch" /\ resp.status = 200
  /\ resp.arg \in ExistingTickets
  /\ KindOf(resp.arg) = "CUSTOMER"
  /\ RoleIn(resp.caller, SupportOpsId) = "ADMIN"
  /\ RoleIn(resp.caller, TenantOf(resp.arg)) = NoRole
  /\ tickets[resp.arg].status = "CLOSED"

\* C8: on GET, reply (valid body) and PATCH (valid body) a caller without
\* access gets for an existing ticket exactly the response it gets for a
\* ticket id that does not exist: 404 NOT_FOUND, never 403, and the tickets
\* and their messages stay as they were.
C8_DenyLooksLikeAbsence ==
  /\ ( /\ resp.op \in {"getTicket", "reply", "patch"}
       /\ resp.arg \in ExistingTickets
       /\ IF resp.op = "patch" THEN ~AdminOf(resp.caller, resp.arg)
                               ELSE ~MayRead(resp.caller, resp.arg) ) =>
         Observable(resp) = Observable(TicketNotFound(resp.op, MissingTicket, resp.caller))
  /\ resp.op \in {"getTicket", "patch"} => resp.status # 403
  /\ \A userId \in Callers, ticketId \in ExistingTickets :
    /\ ~MayRead(userId, ticketId) =>
         /\ Observable(GetNow(userId, ticketId)) = Observable(GetNow(userId, MissingTicket))
         /\ GetNow(userId, ticketId).status = 404
         /\ \A message \in ReplyBodies :
              /\ Observable(ReplyNow(userId, ticketId, message).resp)
                   = Observable(ReplyNow(userId, MissingTicket, message).resp)
              /\ ReplyNow(userId, ticketId, message).resp.status = 404
              /\ ReplyNow(userId, ticketId, message).tickets = tickets
    /\ ~AdminOf(userId, ticketId) =>
         \A body \in PatchBodies :
           /\ Observable(PatchNow(userId, ticketId, body).resp)
                = Observable(PatchNow(userId, MissingTicket, body).resp)
           /\ PatchNow(userId, ticketId, body).resp.status = 404
           /\ PatchNow(userId, ticketId, body).tickets = tickets

\* C8 witness: a caller without any access to an existing ticket has just
\* been answered 404 on GET.
C8_Witness ==
  /\ resp.op = "getTicket" /\ resp.status = 404
  /\ resp.arg \in ExistingTickets
  /\ ~MayRead(resp.caller, resp.arg)
  /\ RoleIn(resp.caller, TenantOf(resp.arg)) = NoRole

\* C9: on a CLOSED ticket the reply of a caller who reads it only as MEMBER
\* (its creator) is refused with 403 TICKET_CLOSED and adds no message; the
\* reply of an ADMIN of the tenant or of an elevated agent is answered 201
\* and adds exactly one message, authored by the caller.
C9_ClosedTicketGate ==
  /\ ( /\ resp.op = "reply"
       /\ resp.arg \in ExistingTickets
       /\ tickets[resp.arg].status = "CLOSED" ) =>
         /\ (MemberOnly(resp.caller, resp.arg) /\ CreatorOf(resp.arg) = resp.caller) =>
              resp.code = "TICKET_CLOSED"
         /\ AdminOf(resp.caller, resp.arg) =>
              /\ resp.status = 201
              /\ tickets[resp.arg].messages[Len(tickets[resp.arg].messages)] = resp.caller
  /\ \A userId \in Callers, ticketId \in ExistingTickets, message \in ReplyBodies :
    tickets[ticketId].status = "CLOSED" =>
      LET reply == ReplyNow(userId, ticketId, message)
      IN /\ (MemberOnly(userId, ticketId) /\ CreatorOf(ticketId) = userId) =>
              /\ reply.resp.status = 403 /\ reply.resp.code = "TICKET_CLOSED"
              /\ reply.tickets = tickets
         /\ AdminOf(userId, ticketId) =>
              /\ reply.resp.status = 201
              /\ reply.tickets = Replied(userId, ticketId)
              /\ Len(reply.tickets[ticketId].messages) = Len(tickets[ticketId].messages) + 1

\* C9 witness: the creator, a MEMBER, has just been refused on a CLOSED
\* ticket to which an ADMIN or agent can still reply.
C9_Witness ==
  /\ resp.op = "reply" /\ resp.code = "TICKET_CLOSED"
  /\ resp.arg \in ExistingTickets
  /\ tickets[resp.arg].status = "CLOSED"
  /\ CreatorOf(resp.arg) = resp.caller /\ MemberOnly(resp.caller, resp.arg)
  /\ \E userId \in Callers :
       AdminOf(userId, resp.arg) /\ ReplyNow(userId, resp.arg, "Any news?").resp.status = 201

\* C10: PATCH changes a ticket only for an ADMIN member of its tenant or an
\* elevated agent on a CUSTOMER-tenant ticket; for every other caller, the
\* MEMBER who created the ticket included, it answers 404 and leaves status
\* and priority (and everything else) unchanged.
C10_PatchAdminOnly ==
  /\ (resp.op = "patch" /\ resp.arg \in ExistingTickets) =>
       (resp.status = 200 <=> AdminOf(resp.caller, resp.arg))
  /\ \A userId \in Callers, ticketId \in ExistingTickets, body \in PatchBodies :
    LET patch == PatchNow(userId, ticketId, body)
    IN IF AdminOf(userId, ticketId)
       THEN /\ patch.resp.status = 200
            /\ patch.tickets[ticketId].status =
                 (IF body.status # Absent THEN body.status ELSE tickets[ticketId].status)
            /\ patch.tickets[ticketId].priority =
                 (IF body.priority # Absent THEN body.priority ELSE tickets[ticketId].priority)
            /\ \A other \in ExistingTickets \ {ticketId} : patch.tickets[other] = tickets[other]
       ELSE /\ patch.resp.status = 404 /\ patch.resp.code = "NOT_FOUND"
            /\ patch.tickets = tickets

\* C10 witness: the MEMBER who created a ticket has just been refused a PATCH
\* of it.
C10_Witness ==
  /\ resp.op = "patch" /\ resp.status = 404
  /\ resp.arg \in ExistingTickets
  /\ CreatorOf(resp.arg) = resp.caller
  /\ MemberOnly(resp.caller, resp.arg)

-----------------------------------------------------------------------------
(* GET /workspaces/:workspaceId/tickets: the ticket list and its cursor *)

Min(a, b) == IF a < b THEN a ELSE b
Max(a, b) == IF a > b THEN a ELSE b

\* A query parameter: left out, or a string given as the sequence of its characters.
AbsentParam == [present |-> FALSE, chars |-> << >>]
Param(chars) == [present |-> TRUE, chars |-> chars]

Digits == {"0", "1", "2", "3", "4", "5", "6", "7", "8", "9"}
DigitValue(ch) ==
  CASE ch = "0" -> 0 [] ch = "1" -> 1 [] ch = "2" -> 2 [] ch = "3" -> 3 [] ch = "4" -> 4
    [] ch = "5" -> 5 [] ch = "6" -> 6 [] ch = "7" -> 7 [] ch = "8" -> 8 [] ch = "9" -> 9

\* The value of the longest prefix of digits of chars[i..], after acc.
RECURSIVE ParseDigits(_, _, _)
ParseDigits(chars, i, acc) ==
  IF i > Len(chars) \/ chars[i] \notin Digits THEN acc
  ELSE ParseDigits(chars, i + 1, acc * 10 + DigitValue(chars[i]))

\* parseInt(str, 10): an optional sign, then the leading digits; NaN when there is none.
ParseInt(chars) ==
  LET signed == Len(chars) >= 1 /\ chars[1] \in {"-", "+"}
      start == IF signed THEN 2 ELSE 1
      magnitude == ParseDigits(chars, start, 0)
  IN IF start > Len(chars) \/ chars[start] \notin Digits
     THEN [nan |-> TRUE, n |-> 0]
     ELSE [nan |-> FALSE, n |-> IF signed /\ chars[1] = "-" THEN 0 - magnitude ELSE magnitude]

\* Math.min(50, Math.max(1, parseInt(String(req.query.limit ?? 20), 10) || 20))
EffectiveLimitUnclamped(limitParam) ==
  LET parsed == ParseInt(IF limitParam.present THEN limitParam.chars ELSE <<"2", "0">>)
  IN IF parsed.nan \/ parsed.n = 0 THEN 20 ELSE parsed.n
EffectiveLimit(limitParam) ==
  LET parsed == ParseInt(IF limitParam.present THEN limitParam.chars ELSE <<"2", "0">>)
      orDefault == IF parsed.nan \/ parsed.n = 0 THEN 20 ELSE parsed.n
  IN Min(50, Max(1, orDefault))

VALID_SORTS == {"createdAt", "updatedAt", "title", "status", "priority"}

\* role === "ADMIN" && VALID_SORTS.includes(sortParam) ? sortParam : "createdAt"
EffectiveSort(role, sortParam) ==
  IF role = "ADMIN" /\ sortParam \in VALID_SORTS THEN sortParam ELSE "createdAt"

\* role === "MEMBER" ? true : mineParam === "true"
EffectiveMineAsAsked(role, mineParam) == mineParam = "true"
EffectiveMine(role, mineParam) == IF role = "MEMBER" THEN TRUE ELSE mineParam = "true"

SupportsCursorAlways(sort) == TRUE
SupportsCursor(sort) == sort \in {"createdAt", "updatedAt"}

\* A cursor string is the sequence of its "|"-separated parts.  A part is the
\* ISO text of a date (Date.toISOString, to the millisecond), a ticket id, or
\* some other text.
DatePart(ms) == [kind |-> "date", n |-> ms, text |-> "iso"]
IdPart(id) == [kind |-> "id", n |-> id, text |-> "id"]
TextPart(str) == [kind |-> "text", n |-> 0, text |-> str]
EmptyString == <<TextPart("")>>
\* nextCursor: null
NoCursor == << >>

NoParsedCursor == [ok |-> FALSE, date |-> 0, id |-> 0]

\* parseCursor: null unless the string has exactly two parts, a date that
\* parses and a non-empty id.
ParseCursorLax(cursor) ==
  IF cursor = EmptyString \/ Len(cursor) < 2 THEN NoParsedCursor
  ELSE IF cursor[1].kind # "date" \/ cursor[2].text = "" THEN NoParsedCursor
  ELSE [ok |-> TRUE, date |-> cursor[1].n, id |-> cursor[2].n]
ParseCursor(cursor) ==
  IF cursor = EmptyString \/ Len(cursor) < 2 THEN NoParsedCursor
  ELSE IF Len(cursor) # 2 THEN NoParsedCursor
  ELSE IF cursor[1].kind # "date" \/ cursor[2].text = "" THEN NoParsedCursor
  ELSE [ok |-> TRUE, date |-> cursor[1].n, id |-> cursor[2].n]

\* encodeCursor: `${date.toISOString()}|${id}`
EncodeCursor(date, id) == <<DatePart(date), IdPart(id)>>

\* The rank of a value in the order Postgres sorts its column by (ASC).
StatusRank(status) ==
  CASE status = "OPEN" -> 1 [] status = "PENDING" -> 2 [] status = "RESOLVED" -> 3
    [] status = "CLOSED" -> 4
\* NULL (NONE) sorts last.
PriorityRank(priority) ==
  CASE priority = "LOW" -> 1 [] priority = "MEDIUM" -> 2 [] priority = "HIGH" -> 3
    [] priority = "NONE" -> 4
TitleRank(title) ==
  CASE title = "Cannot log in" -> 1 [] title = "Printer is broken" -> 2 [] OTHER -> 3

CursorField(tk, sort, i) == IF sort = "updatedAt" THEN tk[i].updatedAt ELSE tk[i].createdAt

\* getOrderBy: row i comes before row j.
Before(tk, sort, i, j) ==
  CASE sort = "updatedAt" ->
         tk[i].updatedAt > tk[j].updatedAt \/ (tk[i].updatedAt = tk[j].updatedAt /\ i > j)
    [] sort = "title" ->
         \/ TitleRank(tk[i].title) < TitleRank(tk[j].title)
         \/ (TitleRank(tk[i].title) = TitleRank(tk[j].title) /\ i < j)
    [] sort = "status" ->
         \/ StatusRank(tk[i].status) < StatusRank(tk[j].status)
         \/ (StatusRank(tk[i].status) = StatusRank(tk[j].status) /\ i < j)
    [] sort = "priority" ->
         \/ PriorityRank(tk[i].priority) < PriorityRank(tk[j].priority)
         \/ (PriorityRank(tk[i].priority) = PriorityRank(tk[j].priority) /\ i < j)
    [] OTHER ->
         tk[i].createdAt > tk[j].createdAt \/ (tk[i].createdAt = tk[j].createdAt /\ i > j)

\* The ids of `rows` in the order of getOrderBy(sort).
RECURSIVE OrderBy(_, _, _)
OrderBy(tk, rows, sort) ==
  IF rows = {} THEN << >>
  ELSE LET first == CHOOSE i \in rows : \A j \in rows \ {i} : Before(tk, sort, i, j)
       IN <<first>> \o OrderBy(tk, rows \ {first}, sort)

\* baseWhere: the workspace, the creator when mine, the rows after the cursor.
WhereDateOnly(tk, workspaceId, mine, userId, sort, cursor) ==
  {i \in 1..Len(tk) :
     /\ tk[i].workspaceId = workspaceId
     /\ mine => tk[i].createdByUserId = userId
     /\ cursor.ok => CursorField(tk, sort, i) < cursor.date}
\* A filter that, given a cursor, selects by the cursor alone.
WhereUnscopedAfterCursor(tk, workspaceId, mine, userId, sort, cursor) ==
  {i \in 1..Len(tk) :
     /\ ~cursor.ok => tk[i].workspaceId = workspaceId
     /\ mine => tk[i].createdByUserId = userId
     /\ cursor.ok =>
          \/ CursorField(tk, sort, i) < cursor.date
          \/ (CursorField(tk, sort, i) = cursor.date /\ i < cursor.id)}
Where(tk, workspaceId, mine, userId, sort, cursor) ==
  {i \in 1..Len(tk) :
     /\ tk[i].workspaceId = workspaceId
     /\ mine => tk[i].createdByUserId = userId
     /\ cursor.ok =>
          \/ CursorField(tk, sort, i) < cursor.date
          \/ (CursorField(tk, sort, i) = cursor.date /\ i < cursor.id)}

Take(items, n) == SubSeq(items, 1, Min(n, Len(items)))

\* prisma.ticket.findMany({where, orderBy, take})
FindMany(tk, rows, sort, take) == Take(OrderBy(tk, rows, sort), take)

\* res.json({items: page, nextCursor}); `query` is the model's record of the request.
ListResponse(workspaceId, userId, query, items, nextCursor) ==
  [op |-> "listTickets", arg |-> workspaceId, caller |-> userId, status |-> 200,
   code |-> "", message |-> "", access |-> NoCookie, refresh |-> NoCookie,
   query |-> query, items |-> items, nextCursor |-> nextCursor]

\* The route handler, behind requireWorkspaceMemberFromParams.
ListTicketsHandler(tk, ws, ms, userId, workspaceId, query) ==
  LET membership == RequireWorkspaceMember(ws, ms, workspaceId, userId)
  IN IF membership.status = 404
     THEN Response("listTickets", workspaceId, userId, 404, "NOT_FOUND", "Workspace not found")
     ELSE IF membership.status = 403
     THEN Response("listTickets", workspaceId, userId, 403, "FORBIDDEN",
                   "Not a member of this workspace")
     ELSE
       LET role == membership.role
           mine == EffectiveMine(role, query.mine)
           limit == EffectiveLimit(query.limit)
           sort == EffectiveSort(role, query.sort)
           supportsCursor == SupportsCursor(sort)
           cursor == IF supportsCursor THEN ParseCursor(query.cursor) ELSE NoParsedCursor
           items == FindMany(tk, Where(tk, workspaceId, mine, userId, sort, cursor),
                             sort, limit + 1)
           hasMore == Len(items) > limit
           page == IF hasMore THEN SubSeq(items, 1, limit) ELSE items
           nextCursor == IF hasMore /\ Len(page) > 0 /\ supportsCursor
                         THEN EncodeCursor(CursorField(tk, sort, page[Len(page)]),
                                           page[Len(page)])
                         ELSE NoCursor
       IN ListResponse(workspaceId, userId, query, page, nextCursor)

-----------------------------------------------------------------------------
(* The ticket list of one tenant, one request at a time *)

\* The demo tenant's tickets are opened by its MEMBER and by the support agent.
ListCreateInputs == {<<MemberId, "Cannot log in">>, <<AdminId, "Printer is broken">>}

Query(mine, limit, sort, cursor) ==
  [mine |-> mine, limit |-> limit, sort |-> sort, cursor |-> cursor]

ListCallers == {AdminId, MemberId, Member2Id}

\* The lists a client asks for: the first page, a cursor with one separator
\* too many, or the page after the cursor the last response handed out.
ListCursors ==
  {EmptyString, <<DatePart(0), IdPart(1), TextPart("x")>>} \cup
    (IF resp.op = "listTickets" /\ resp.status = 200 /\ resp.nextCursor # NoCursor
     THEN {resp.nextCursor} ELSE {})

ListCreateTicket ==
  \E in \in ListCreateInputs :
    LET out == CreateTicketHandler(tickets, workspaces, members, now, in[1],
                                   DemoWorkspaceId, in[2])
    IN /\ Len(out.tickets) <= MaxListed
       /\ tickets' = out.tickets
       /\ resp' = out.resp
       /\ UNCHANGED <<users, workspaces, members, sessions, now, tokenCount, okCount, req>>

\* The agent closes the oldest ticket: its updatedAt moves to the present.
ListPatch ==
  LET out == PatchHandler(tickets, workspaces, members, now, AdminId, 1,
                          [status |-> "CLOSED", priority |-> Absent])
  IN /\ tickets' = out.tickets
     /\ resp' = out.resp
     /\ UNCHANGED <<users, workspaces, members, sessions, now, tokenCount, okCount, req>>

ListTickets ==
  \E userId \in {AdminId}, sort \in {"updatedAt", "status"},
     limit \in {Param(<<"-", "5">>)}, cursor \in ListCursors :
    /\ resp' = ListTicketsHandler(tickets, workspaces, members, userId, DemoWorkspaceId,
                                  Query("false", limit, sort, cursor))
    /\ UNCHANGED <<users, workspaces, members, tickets, sessions, now, tokenCount, okCount, req>>

ListNext == ListCreateTicket \/ ListPatch \/ ListTickets \/ Tick

ListSpec == Init /\ [][ListNext]_vars

-----------------------------------------------------------------------------
(* Properties of the ticket list *)

DigitChar(d) == CHOOSE ch \in Digits : DigitValue(ch) = d
\* The decimal text of a natural number, as a client writes it in the query.
RECURSIVE Decimal(_)
Decimal(n) == IF n < 10 THEN <<DigitChar(n)>> ELSE Decimal(n \div 10) \o <<DigitChar(n % 10)>>

\* A tenant with n tickets of its MEMBER: four to a millisecond of creation,
\* touched later in another order.
ManyTickets(n) ==
  [i \in 1..n |->
     [workspaceId |-> DemoWorkspaceId, createdByUserId |-> MemberId,
      title |-> "Cannot log in", status |-> "OPEN", priority |-> "NONE",
      createdAt |-> i \div 4, updatedAt |-> (i \div 4) + ((i * 7) % 5),
      messages |-> <<MemberId>>]]

\* The pages a client gets that starts without cursor and follows every
\* nextCursor, at most fuel times.
RECURSIVE Walk(_, _, _, _, _, _, _)
Walk(tk, ws, ms, userId, workspaceId, query, fuel) ==
  LET r == ListTicketsHandler(tk, ws, ms, userId, workspaceId, query)
  IN IF r.status # 200 \/ r.nextCursor = NoCursor \/ fuel = 0 THEN <<r>>
     ELSE <<r>> \o Walk(tk, ws, ms, userId, workspaceId,
                        [query EXCEPT !.cursor = r.nextCursor], fuel - 1)

RECURSIVE Concatenation(_, _)
Concatenation(walk, k) ==
  IF k = 0 THEN << >> ELSE Concatenation(walk, k - 1) \o walk[k].items

PageSizes(walk) == [k \in 1..Len(walk) |-> Len(walk[k].items)]

\* The tickets of the tenant the caller may be shown.
Visible(tk, workspaceId, userId, role, mineParam) ==
  {i \in 1..Len(tk) :
     /\ tk[i].workspaceId = workspaceId
     /\ (role = "MEMBER" \/ mineParam = "true") => tk[i].createdByUserId = userId}

\* items lists every ticket of `rows` once, latest `field` first and, among
\* equal timestamps, larger id first.
ListsNewestFirst(tk, field, rows, items) ==
  /\ Len(items) = Cardinality(rows)
  /\ {items[k] : k \in 1..Len(items)} = rows
  /\ \A a, b \in 1..Len(items) :
       a < b =>
         LET x == IF field = "updatedAt" THEN tk[items[a]].updatedAt ELSE tk[items[a]].createdAt
             y == IF field = "updatedAt" THEN tk[items[b]].updatedAt ELSE tk[items[b]].createdAt
         IN x > y \/ (x = y /\ items[a] > items[b])

\* Following the cursors from the start with page size L pages through the
\* whole visible set.
PagesThrough(tk, ws, ms, userId, workspaceId, mineParam, sortParam, L) ==
  LET membership == RequireWorkspaceMember(ws, ms, workspaceId, userId)
      rows == Visible(tk, workspaceId, userId, membership.role, mineParam)
      field == IF membership.role = "ADMIN" THEN sortParam ELSE "createdAt"
      walk == Walk(tk, ws, ms, userId, workspaceId,
                   Query(mineParam, Param(Decimal(L)), sortParam, EmptyString), Len(tk) + 1)
      P == Len(walk)
  IN membership.status = 200 =>
       /\ \A k \in 1..P : walk[k].status = 200
       /\ \A k \in 1..(P - 1) : Len(walk[k].items) = L /\ walk[k].nextCursor # NoCursor
       /\ walk[P].nextCursor = NoCursor
       /\ Len(walk[P].items) <= L
       /\ rows # {} => Len(walk[P].items) >= 1
       /\ \A k \in 1..P :
            (walk[k].nextCursor # NoCursor) <=>
              (Len(Concatenation(walk, k)) < Cardinality(rows))
       /\ ListsNewestFirst(tk, field, rows, Concatenation(walk, P))

MineParams == {Absent, "true", "false"}

\* Twenty-five tickets, ten to a page.
TwentyFiveByTen ==
  /\ PageSizes(Walk(ManyTickets(25), SeedWorkspaces, SeedMembers, MemberId, DemoWorkspaceId,
                    Query(Absent, Param(Decimal(10)), "createdAt", EmptyString), 26))
       = <<10, 10, 5>>
  /\ PageSizes(Walk(ManyTickets(20), SeedWorkspaces, SeedMembers, AdminId, DemoWorkspaceId,
                    Query("false", Param(Decimal(10)), "updatedAt", EmptyString), 21))
       = <<10, 10>>
  /\ \A userId \in {AdminId, MemberId}, sortParam \in {"createdAt", "updatedAt"}, L \in {7, 10, 50} :
       /\ PagesThrough(ManyTickets(25), SeedWorkspaces, SeedMembers, userId, DemoWorkspaceId,
                       Absent, sortParam, L)
       /\ PagesThrough(ManyTickets(20), SeedWorkspaces, SeedMembers, userId, DemoWorkspaceId,
                       Absent, sortParam, L)

\* C15: for every caller let in, every value of mine, sort createdAt or
\* updatedAt and every page size L, the pages got by starting without cursor
\* and following each nextCursor have exactly L items except possibly the
\* last, nextCursor is non-null exactly when further rows remain, and the
\* pages concatenated are the whole visible set, each ticket once, ordered by
\* (field DESC, id DESC), where field is the sort in effect (createdAt for a
\* MEMBER).  This holds with tickets sharing a timestamp and with N a
\* multiple of L; 25 tickets with L = 10 come as 10, 10, 5.
C15_PaginationCoversAll ==
  /\ TwentyFiveByTen
  /\ \A userId \in ListCallers, mineParam \in {Absent, "true"},
        sortParam \in {"createdAt", "updatedAt"}, L \in 1..(Len(tickets) + 1) :
       PagesThrough(tickets, workspaces, members, userId, DemoWorkspaceId,
                    mineParam, sortParam, L)
  /\ ( /\ resp.op = "listTickets" /\ resp.status = 200
       /\ resp.query.sort \in {"createdAt", "updatedAt"}
       /\ resp.nextCursor # NoCursor ) =>
         LET last == resp.items[Len(resp.items)]
             next == ListTicketsHandler(tickets, workspaces, members, resp.caller, resp.arg,
                                        [resp.query EXCEPT !.cursor = resp.nextCursor])
             field == IF resp.caller = AdminId THEN resp.query.sort ELSE "createdAt"
         IN /\ Len(next.items) >= 1
            /\ \A k \in 1..Len(next.items) : next.items[k] \notin
                 {resp.items[j] : j \in 1..Len(resp.items)}
            /\ LET x == CursorField(tickets, field, last)
                   y == CursorField(tickets, field, next.items[1])
               IN x > y \/ (x = y /\ last > next.items[1])

\* C15 witness: the last page of a walk by updatedAt has just been served
\* from a cursor, in a tenant where two tickets share the timestamp and the
\* number of tickets is a multiple of the page size.
C15_Witness ==
  /\ resp.op = "listTickets" /\ resp.status = 200
  /\ resp.caller = AdminId
  /\ resp.query.sort = "updatedAt"
  /\ ParseCursor(resp.query.cursor).ok
  /\ resp.nextCursor = NoCursor
  /\ Len(resp.items) = 1
  /\ Len(tickets) = 3
  /\ \E i, j \in 1..Len(tickets) : i # j /\ tickets[i].updatedAt = tickets[j].updatedAt
  /\ \E i, j \in 1..Len(tickets) : tickets[i].updatedAt # tickets[j].updatedAt

\* What the caller observes of a list response.
ListObservable(r) ==
  IF r.status = 200
  THEN [status |-> r.status, items |-> r.items, nextCursor |-> r.nextCursor]
  ELSE [status |-> r.status, items |-> << >>, nextCursor |-> NoCursor]

ListNow(userId, query) ==
  ListTicketsHandler(tickets, workspaces, members, userId, DemoWorkspaceId, query)

RoleNow(userId) == RequireWorkspaceMember(workspaces, members, DemoWorkspaceId, userId)

\* Values of the limit parameter and the page size each must give.
LimitCases ==
  { <<AbsentParam, 20>>, <<Param(<< >>), 20>>, <<Param(<<"a", "b", "c">>), 20>>,
    <<Param(<<"0">>), 20>>, <<Param(<<"-", "5">>), 1>>, <<Param(<<"1">>), 1>>,
    <<Param(<<"2">>), 2>>, <<Param(<<"2", ".", "9">>), 2>>, <<Param(<<"5", "0">>), 50>>,
    <<Param(<<"5", "1">>), 50>>, <<Param(<<"1", "0", "0">>), 50>>,
    <<Param(<<"1", "e", "3">>), 1>> }

\* Sixty tickets: more than any page holds.
SixtyTickets ==
  \A case \in LimitCases :
    LET r == ListTicketsHandler(ManyTickets(60), SeedWorkspaces, SeedMembers, MemberId,
                                DemoWorkspaceId, Query(Absent, case[1], Absent, EmptyString))
    IN r.status = 200 /\ Len(r.items) = case[2]

\* C17: whatever the limit parameter is (absent, empty, non-numeric, 0,
\* negative, above 50, with a fraction) the page size in effect is within
\* 1..50, it is 20 for an absent or non-numeric parameter, and a response
\* holds the first min(page size, matching tickets) tickets, never more than
\* the page size.
C17_PageSizeClamped ==
  /\ SixtyTickets
  /\ \A case \in LimitCases :
       /\ EffectiveLimit(case[1]) = case[2]
       /\ EffectiveLimit(case[1]) \in 1..50
       /\ \A userId \in ListCallers, sortParam \in {"updatedAt", "priority"},
             mineParam \in {Absent} :
            LET r == ListNow(userId, Query(mineParam, case[1], sortParam, EmptyString))
                rows == Visible(tickets, DemoWorkspaceId, userId, RoleNow(userId).role, mineParam)
            IN r.status = 200 => Len(r.items) = Min(case[2], Cardinality(rows))
  /\ (resp.op = "listTickets" /\ resp.status = 200) =>
       /\ Len(resp.items) <= 50
       /\ resp.query.limit = Param(<<"-", "5">>) => Len(resp.items) <= 1

\* C17 witness: a negative limit has just been served as a page of one
\* ticket out of three, with a cursor to the rest.
C17_Witness ==
  /\ resp.op = "listTickets" /\ resp.status = 200
  /\ resp.query.limit = Param(<<"-", "5">>)
  /\ Len(resp.items) = 1
  /\ resp.nextCursor # NoCursor
  /\ Cardinality(Visible(tickets, DemoWorkspaceId, resp.caller,
                         RoleNow(resp.caller).role, resp.query.mine)) = 3

\* Cursor strings that parseCursor must refuse: no separator, more than one
\* separator, a date that does not parse, an empty id.
MalformedCursors ==
  { <<TextPart("garbage")>>, <<DatePart(0)>>,
    <<DatePart(0), IdPart(1), TextPart("x")>>, <<DatePart(0), IdPart(1), IdPart(2)>>,
    <<TextPart("not-a-date"), IdPart(1)>>, <<TextPart(""), IdPart(1)>>,
    <<IdPart(1), IdPart(1)>>, <<DatePart(0), TextPart("")>> }

\* C18: a malformed cursor is answered as no cursor is: 200 with the same
\* first page and the same nextCursor, for every caller let in, either date
\* sort and page sizes below and above the number of tickets.
C18_MalformedCursorStartsOver ==
  /\ \A cursor \in MalformedCursors : ~ParseCursor(cursor).ok
  /\ \A userId \in ListCallers, cursor \in MalformedCursors,
        sortParam \in {"createdAt", "updatedAt"}, limit \in {Param(<<"1">>), AbsentParam} :
       LET r == ListNow(userId, Query("false", limit, sortParam, cursor))
           first == ListNow(userId, Query("false", limit, sortParam, EmptyString))
       IN /\ ListObservable(r) = ListObservable(first)
          /\ RoleNow(userId).status = 200 => r.status = 200
  /\ ( /\ resp.op = "listTickets" /\ resp.status = 200
       /\ resp.query.cursor \in MalformedCursors ) =>
         ListObservable(resp) = ListObservable(ListNow(resp.caller,
                                  [resp.query EXCEPT !.cursor = EmptyString]))

\* C18 witness: a cursor with two separators has just been answered with the
\* first page, although its first two parts point behind every ticket.
C18_Witness ==
  /\ resp.op = "listTickets" /\ resp.status = 200
  /\ resp.query.cursor = <<DatePart(0), IdPart(1), TextPart("x")>>
  /\ resp.query.sort = "updatedAt"
  /\ Len(resp.items) = 1
  /\ Where(tickets, DemoWorkspaceId, FALSE, resp.caller, "updatedAt",
           [ok |-> TRUE, date |-> 0, id |-> 1]) = {}

\* Cursors a client can hold: the one behind each ticket, by either date.
HeldCursors ==
  {EncodeCursor(tickets[i].createdAt, i) : i \in 1..Len(tickets)} \cup
  {EncodeCursor(tickets[i].updatedAt, i) : i \in 1..Len(tickets)}

\* C19: with the sort in effect title, status or priority (a caller resolved
\* as ADMIN asking for it) the list is the first page only: nextCursor is null
\* even when more tickets match than the page holds, and a cursor the caller
\* supplies changes nothing.
C19_FirstPageOnly ==
  /\ \A userId \in ListCallers, sortParam \in {"title", "status", "priority"},
        limit \in {Param(<<"1">>), AbsentParam}, mineParam \in {Absent, "true"} :
       RoleNow(userId).role = "ADMIN" =>
         LET first == ListNow(userId, Query(mineParam, limit, sortParam, EmptyString))
             rows == Visible(tickets, DemoWorkspaceId, userId, "ADMIN", mineParam)
         IN /\ first.status = 200
            /\ first.nextCursor = NoCursor
            /\ Len(first.items) = Min(EffectiveLimit(limit), Cardinality(rows))
            /\ \A cursor \in HeldCursors \cup {<<TextPart("garbage")>>} :
                 ListObservable(ListNow(userId, Query(mineParam, limit, sortParam, cursor)))
                   = ListObservable(first)
  /\ ( /\ resp.op = "listTickets" /\ resp.status = 200
       /\ RoleNow(resp.caller).role = "ADMIN"
       /\ resp.query.sort \in {"title", "status", "priority"} ) =>
         /\ resp.nextCursor = NoCursor
         /\ ListObservable(resp) = ListObservable(ListNow(resp.caller,
                                     [resp.query EXCEPT !.cursor = EmptyString]))

\* C19 witness: sorted by status, a request carrying the cursor of an
\* earlier page has just been answered with one ticket out of three and no
\* nextCursor.
C19_Witness ==
  /\ resp.op = "listTickets" /\ resp.status = 200
  /\ resp.caller = AdminId
  /\ resp.query.sort = "status"
  /\ ParseCursor(resp.query.cursor).ok
  /\ resp.nextCursor = NoCursor
  /\ Len(resp.items) = 1
  /\ Len(tickets) = 3

-----------------------------------------------------------------------------
(* Membership resolution while roles and the advisory flag change *)

\* What requireWorkspaceMember leaves for the route: the membership it
\* attaches to the request, or the error it answers with.
ResolveResponse(ws, ms, workspaceId, userId) ==
  LET membership == RequireWorkspaceMember(ws, ms, workspaceId, userId)
      answer == CASE membership.status = 404 ->
                       Response("resolveMembership", workspaceId, userId, 404, "NOT_FOUND",
                                "Workspace not found")
                  [] membership.status = 403 ->
                       Response("resolveMembership", workspaceId, userId, 403, "FORBIDDEN",
                                "Not a member of this workspace")
                  [] OTHER -> Response("resolveMembership", workspaceId, userId, 200, "", "")
  IN [op |-> answer.op, arg |-> answer.arg, caller |-> answer.caller,
      status |-> answer.status, code |-> answer.code, message |-> answer.message,
      access |-> answer.access, refresh |-> answer.refresh, role |-> membership.role]

\* Workspace ids a caller may name: the existing ones and one that does not exist.
WorkspaceIds(ws) == 1..(Len(ws) + 1)

\* A resolver that answers from the memberships it read when the server
\* started.
ResolveMembershipStale ==
  \E userId \in Callers, workspaceId \in WorkspaceIds(workspaces) :
    /\ resp' = ResolveResponse(SeedWorkspaces, SeedMembers, workspaceId, userId)
    /\ UNCHANGED <<users, workspaces, members, tickets, sessions, now, tokenCount, okCount, req>>
ResolveMembership ==
  \E userId \in Callers, workspaceId \in WorkspaceIds(workspaces) :
    /\ resp' = ResolveResponse(workspaces, members, workspaceId, userId)
    /\ UNCHANGED <<users, workspaces, members, tickets, sessions, now, tokenCount, okCount, req>>

\* User.isSupportAgent of the seeded agent is written behind the API.
SetFlag ==
  \E flag \in BOOLEAN :
    /\ users' = [users EXCEPT ![AdminId].isSupportAgent = flag]
    /\ UNCHANGED <<workspaces, members, tickets, sessions, now, tokenCount, resp, okCount, req>>

AuthzList ==
  \E userId \in Callers, mine \in {"false", "true"} :
    /\ resp' = ListTicketsHandler(tickets, workspaces, members, userId, DemoWorkspaceId,
                                  Query(mine, AbsentParam, Absent, EmptyString))
    /\ UNCHANGED <<users, workspaces, members, tickets, sessions, now, tokenCount, okCount, req>>

AuthzNext ==
  SetRole \/ SetFlag \/ ListCreateTicket \/ ListPatch \/ ResolveMembership \/ AuthzList

AuthzSpec == Init /\ [][AuthzNext]_vars

-----------------------------------------------------------------------------
(* Properties of membership resolution *)

MembershipRows(workspaceId, userId) ==
  {m \in members : m.workspaceId = workspaceId /\ m.userId = userId}

\* The decision table of resolveMembership, stated on the stored rows.
ResolvesByTable(workspaceId, userId, membership) ==
  IF workspaceId \notin 1..Len(workspaces) THEN membership.status = 404
  ELSE IF Elevated(userId) /\ workspaces[workspaceId].kind = "CUSTOMER"
  THEN membership.status = 200 /\ membership.role = "ADMIN"
  ELSE IF MembershipRows(workspaceId, userId) # {}
  THEN /\ membership.status = 200
       /\ \A m \in MembershipRows(workspaceId, userId) : membership.role = m.role
  ELSE membership.status = 403

\* C11: resolveMembership follows its decision table for every tenant and
\* user: a tenant that does not exist gives 404 NOT_FOUND, for an elevated
\* agent too; else an elevated agent in a CUSTOMER tenant is resolved as ADMIN
\* whether or not a membership row exists; else the membership row gives its
\* role; else 403 FORBIDDEN.  Resolving creates no row.
C11_ResolveMembershipTable ==
  /\ [](\A userId \in Callers, workspaceId \in WorkspaceIds(workspaces) :
          ResolvesByTable(workspaceId, userId,
                          RequireWorkspaceMember(workspaces, members, workspaceId, userId)))
  /\ [](resp.op = "resolveMembership" =>
          /\ ResolvesByTable(resp.arg, resp.caller, resp)
          /\ resp.status \in {200, 403, 404}
          /\ resp.code = (CASE resp.status = 404 -> "NOT_FOUND"
                            [] resp.status = 403 -> "FORBIDDEN"
                            [] OTHER -> ""))
  /\ [][ResolveMembership => (members' = members /\ workspaces' = workspaces)]_vars

\* C11 witness: an elevated agent without a membership row in a CUSTOMER
\* tenant has just been resolved as its ADMIN, and still has no row there.
C11_Witness ==
  /\ resp.op = "resolveMembership" /\ resp.status = 200 /\ resp.role = "ADMIN"
  /\ workspaces[resp.arg].kind = "CUSTOMER"
  /\ Elevated(resp.caller)
  /\ MembershipRows(resp.arg, resp.caller) = {}

\* What listTickets answers each caller in the tenant, as a function of the
\* stored rows the handler reads.
ListOutcomes(tk, ws, ms) ==
  [userId \in Callers |->
     [mine \in {"false", "true"} |->
        ListObservable(ListTicketsHandler(tk, ws, ms, userId, DemoWorkspaceId,
                                          Query(mine, AbsentParam, "status", EmptyString)))]]

\* Every other authorization outcome of the API in the present state.
AuthzOutcomes ==
  [userId \in Callers |->
     [resolve |-> [workspaceId \in WorkspaceIds(workspaces) |->
                     RequireWorkspaceMember(workspaces, members, workspaceId, userId)],
      agent |-> IsSupportAgent(workspaces, members, userId),
      get |-> [ticketId \in TicketIds(tickets) |-> GetNow(userId, ticketId)],
      reply |-> [ticketId \in TicketIds(tickets) |-> ReplyNow(userId, ticketId, "Any news?")],
      patch |-> [ticketId \in TicketIds(tickets) |->
                   PatchNow(userId, ticketId, [status |-> "PENDING", priority |-> "LOW"])]]]

C16_MemberListsOwnOnly ==
  /\ \A userId \in Callers, mine \in MineParams \cup {"TRUE"},
        sort \in {Absent, "updatedAt", "status"}, limit \in {AbsentParam, Param(<<"1">>)},
        cursor \in {EmptyString} \cup HeldCursors :
       LET membership == RoleNow(userId)
           r == ListNow(userId, Query(mine, limit, sort, cursor))
           listed == IF r.status = 200 THEN {r.items[k] : k \in 1..Len(r.items)} ELSE {}
           ofTenant == {i \in 1..Len(tickets) : tickets[i].workspaceId = DemoWorkspaceId}
       IN /\ r.status = membership.status
          /\ listed \subseteq ofTenant
          /\ membership.role = "MEMBER" => \A i \in listed : tickets[i].createdByUserId = userId
          /\ (\E i \in listed : tickets[i].createdByUserId # userId) =>
               (membership.role = "ADMIN" /\ mine # "true")
          /\ ( /\ membership.role = "ADMIN" /\ mine # "true"
               /\ limit = AbsentParam /\ cursor = EmptyString ) => listed = ofTenant
  /\ (resp.op = "listTickets" /\ resp.status = 200 /\ RoleNow(resp.caller).role = "MEMBER") =>
       \A k \in 1..Len(resp.items) : tickets[resp.items[k]].createdByUserId = resp.caller

\* C16 witness: a MEMBER who asked with mine=false has just been listed
\* their own ticket and not the one another user opened in the tenant.
C16_Witness ==
  /\ resp.op = "listTickets" /\ resp.status = 200
  /\ RoleNow(resp.caller).role = "MEMBER"
  /\ resp.query.mine = "false"
  /\ Len(resp.items) >= 1
  /\ \E i \in 1..Len(tickets) :
       tickets[i].workspaceId = DemoWorkspaceId /\ tickets[i].createdByUserId # resp.caller

-----------------------------------------------------------------------------
(* requireAuth and GET /me *)

\* A request without an access_token cookie.
NoAccessToken == [sub |-> 0, exp |-> 0, alg |-> "", key |-> ""]

\* jwt.verify(token, secret, {algorithms: ["HS256"]}) and the payload.sub
\* test: the header names HS256, the signature was made with the secret, the
\* expiry has not been reached and there is a subject.
VerifyAccessTokenIgnoresExpiry(token, t) ==
  [ok |-> token.alg = "HS256" /\ token.key = JWT_ACCESS_SECRET /\ token.sub # 0,
   sub |-> token.sub]
VerifyAccessToken(token, t) ==
  [ok |-> /\ token.alg = "HS256"
          /\ token.key = JWT_ACCESS_SECRET
          /\ t < token.exp
          /\ token.sub # 0,
   sub |-> token.sub]

\* requireAuth if it also asked for a session of the subject that is not revoked.
RequireAuthWithLiveSession(us, t, token) ==
  IF token = NoAccessToken
  THEN [status |-> 401, message |-> "Access token required", userId |-> 0]
  ELSE LET payload == VerifyAccessToken(token, t)
       IN IF ~payload.ok
          THEN [status |-> 401, message |-> "Invalid or expired access token", userId |-> 0]
          ELSE IF \/ payload.sub \notin 1..Len(us)
                  \/ ~\E i \in 1..Len(sessions) :
                        sessions[i].userId = payload.sub /\ sessions[i].revokedAt = NullDate
          THEN [status |-> 401, message |-> "User not found", userId |-> 0]
          ELSE [status |-> 200, message |-> "", userId |-> payload.sub]
\* requireAuth: 401 UNAUTHORIZED with one of three messages, or req.user.
RequireAuth(us, t, token) ==
  IF token = NoAccessToken
  THEN [status |-> 401, message |-> "Access token required", userId |-> 0]
  ELSE LET payload == VerifyAccessToken(token, t)
       IN IF ~payload.ok
          THEN [status |-> 401, message |-> "Invalid or expired access token", userId |-> 0]
          ELSE IF payload.sub \notin 1..Len(us)
          THEN [status |-> 401, message |-> "User not found", userId |-> 0]
          ELSE [status |-> 200, message |-> "", userId |-> payload.sub]

\* requireAuth followed by the /me handler: 200 {user}.
MeHandler(us, t, token) ==
  LET auth == RequireAuth(us, t, token)
  IN IF auth.status = 401
     THEN Response("me", 0, 0, 401, "UNAUTHORIZED", auth.message)
     ELSE Response("me", 0, auth.userId, 200, "", "")

\* The access_token cookie a client holds after applying a response to an
\* empty cookie jar: res.cookie stores the value, res.clearCookie removes it.
HeldAccessToken(r) == IF r.access[1] = "set" THEN r.access[2] ELSE NoAccessToken
\* The same for the refresh_token cookie.
HeldRefreshToken(r) == IF r.refresh[1] = "set" THEN r.refresh[2] ELSE NoToken

-----------------------------------------------------------------------------
(* Sessions of clients that log in, refresh, log out and ask who they are *)

\* The client sends the cookie the last response left it with, or none.
Me ==
  \E token \in {NoAccessToken, HeldAccessToken(resp)} :
    /\ resp' = MeHandler(users, now, token)
    /\ UNCHANGED <<users, workspaces, members, tickets, sessions, now, tokenCount, okCount, req>>

SessionNext == Login \/ Refresh \/ Logout \/ Me \/ Tick

SessionSpec == Init /\ [][SessionNext]_vars

-----------------------------------------------------------------------------
(* Properties of logout *)

LiveIds(ss, t) == {i \in 1..Len(ss) : Live(ss[i], t)}
RevokedIds(ss) == {i \in 1..Len(ss) : ss[i].revokedAt # NullDate}
MatchingIds(ss, tok) ==
  IF tok = NoToken THEN {}
  ELSE {i \in 1..Len(ss) : ss[i].refreshTokenHash = HashRefreshToken(tok)}

\* C13: logout answers 200 {ok: true} and clears both auth cookies whether
\* no token, an unknown token or an issued token is presented; every session
\* whose hash is the presented token's hash becomes revoked and every other
\* session is unchanged; the same logout again, at once or later, answers
\* the same and changes neither the revoked nor the live sessions.
C13_LogoutIdempotent ==
  /\ \A tok \in PresentedTokens(tokenCount) :
       LET out == LogoutHandler(sessions, now, tok)
       IN /\ out.resp.status = 200 /\ out.resp.code = ""
          /\ out.resp.access = ClearCookie /\ out.resp.refresh = ClearCookie
          /\ Len(out.sessions) = Len(sessions)
          /\ \A i \in 1..Len(sessions) :
               IF i \in MatchingIds(sessions, tok)
               THEN out.sessions[i] = [sessions[i] EXCEPT !.revokedAt = now]
               ELSE out.sessions[i] = sessions[i]
          /\ \A t \in {now, now + TickMs} :
               LET again == LogoutHandler(out.sessions, t, tok)
               IN /\ Observable(again.resp) = Observable(out.resp)
                  /\ RevokedIds(again.sessions) = RevokedIds(out.sessions)
                  /\ LiveIds(again.sessions, t) = LiveIds(out.sessions, t)
  /\ resp.op = "logout" =>
       /\ resp.status = 200 /\ resp.code = ""
       /\ resp.access = ClearCookie /\ resp.refresh = ClearCookie
       /\ MatchingIds(sessions, resp.arg) \subseteq RevokedIds(sessions)

\* C13 witness: the last response is a logout that presented an issued
\* token; its session is revoked and another session is still live.
C13_Witness ==
  /\ resp.op = "logout" /\ resp.arg \in IssuedTokens
  /\ MatchingIds(sessions, resp.arg) # {}
  /\ MatchingIds(sessions, resp.arg) \subseteq RevokedIds(sessions)
  /\ LiveIds(sessions, now) # {}

\* C14: after a logout that presented refresh token T, a refresh presenting T
\* is answered 401, at once and in every later state (a revoked session is
\* never live again), and GET /me with the cookies the logout response left
\* the client, both cleared, is answered 401.
C14_LoggedOutStaysOut ==
  /\ [](\A tok \in PresentedTokens(tokenCount) \ {NoToken} :
          LET out == LogoutHandler(sessions, now, tok)
          IN /\ \A t \in {now, now + TickMs} :
                  RefreshHandler(out.sessions, tokenCount, t, tok).resp.status = 401
             /\ HeldAccessToken(out.resp) = NoAccessToken
             /\ HeldRefreshToken(out.resp) = NoToken
             /\ MeHandler(users, now, HeldAccessToken(out.resp)).status = 401)
  /\ [](\A tok \in IssuedTokens :
          MatchingIds(sessions, tok) \cap RevokedIds(sessions) # {} =>
            RefreshNow(tok).resp.status = 401)
  /\ [](resp.op = "logout" =>
          /\ resp.arg # NoToken => RefreshNow(resp.arg).resp.status = 401
          /\ RefreshNow(HeldRefreshToken(resp)).resp.status = 401
          /\ MeHandler(users, now, HeldAccessToken(resp)).status = 401)
  /\ [][ /\ RevokedIds(sessions) \subseteq RevokedIds(sessions')
         /\ \A i \in 1..Len(sessions) :
              sessions'[i].refreshTokenHash = sessions[i].refreshTokenHash
         /\ (resp.op = "logout" /\ Me) => (resp'.op = "me" /\ resp'.status = 401) ]_vars

\* C14 witness: a refresh has just been refused for an issued token that no
\* refresh ever accepted: its session was revoked by logout, not by rotation.
C14_Witness ==
  /\ resp.op = "refresh" /\ resp.status = 401
  /\ resp.arg \in IssuedTokens
  /\ okCount[resp.arg] = 0
  /\ MatchingIds(sessions, resp.arg) # {}
  /\ MatchingIds(sessions, resp.arg) \subseteq RevokedIds(sessions)
  /\ \A i \in MatchingIds(sessions, resp.arg) : ~(sessions[i].expiresAt < now)

-----------------------------------------------------------------------------
(* Signups from new and known domains *)

\* An address of a known tenant typed in capitals, two addresses of an
\* allow-listed domain that has no tenant yet, and an address already taken.
SignupSpecEmails ==
  {Email("new", "Example.COM"), Email("agent", "Support.Local"),
   Email("agent2", "support.local"), MEMBER_EMAIL}

SignupAny ==
  \E email \in SignupSpecEmails :
    LET out == SignupHandler(users, workspaces, members, sessions, tokenCount, now,
                             email, MEMBER_PASSWORD)
    IN /\ Len(out.sessions) <= MaxSessions
       /\ users' = out.users
       /\ workspaces' = out.workspaces
       /\ members' = out.members
       /\ sessions' = out.sessions
       /\ tokenCount' = out.tokenCount
       /\ resp' = out.resp
       /\ UNCHANGED <<tickets, now, okCount, req>>

SignupNext == SignupAny \/ Me \/ Logout \/ Tick

SignupSpec == Init /\ [][SignupNext]_vars

-----------------------------------------------------------------------------
(* Properties of signup *)

WithDomain(ws, domain) == {i \in 1..Len(ws) : ws[i].domain = domain}
OnAllowList(email) == ToLowerCase(email.domain) \in SupportAgentEmailDomains

\* What a signup answered 201 has done to the rows `us`, `ws`, `ms`.
SignedUp(us, ws, ms, email, out) ==
  LET uid == Len(us) + 1
      domain == ToLowerCase(email.domain)
      tenants == WithDomain(out.workspaces, domain)
  IN /\ Len(out.users) = Len(us) + 1
     /\ SubSeq(out.users, 1, Len(us)) = us
     /\ out.users[uid].email = email
     /\ {i \in 1..Len(out.users) : out.users[i].email = email} = {uid}
     /\ out.resp.caller = uid
     /\ Cardinality(tenants) = 1
     /\ \A w \in tenants :
          /\ out.workspaces[w].kind = "CUSTOMER"
          /\ out.members = ms \cup {Member(w, uid, "MEMBER")} \cup
               (IF OnAllowList(email)
                THEN {Member(FindSupportOps(ws), uid, "ADMIN")} ELSE {})
     /\ IF WithDomain(ws, domain) # {}
        THEN out.workspaces = ws
        ELSE /\ Len(out.workspaces) = Len(ws) + 1
             /\ SubSeq(out.workspaces, 1, Len(ws)) = ws
     /\ ws[FindSupportOps(ws)].kind = "SUPPORT_OPS"
     /\ IsSupportAgent(out.workspaces, out.members, uid) <=> OnAllowList(email)
     /\ OnAllowList(email) =>
          \A w \in 1..Len(out.workspaces) :
            out.workspaces[w].kind = "CUSTOMER" =>
              RequireWorkspaceMember(out.workspaces, out.members, w, uid).role = "ADMIN"

\* C20: a signup with an unused email is answered 201 and creates exactly
\* one user; afterwards exactly one tenant has the email's lower-cased domain,
\* it is a CUSTOMER tenant, created only if none had that domain and reused
\* otherwise; the user is its MEMBER; when the domain is on the allow-list the
\* user is also ADMIN of the operations tenant and hence an elevated agent
\* right after signup, and otherwise is not.  A taken email changes nothing.
C20_SignupProvisions ==
  /\ [](\A email \in SignupSpecEmails :
          LET out == SignupHandler(users, workspaces, members, sessions, tokenCount, now,
                                   email, MEMBER_PASSWORD)
          IN IF FindUserByEmail(users, email) = NoRow
             THEN /\ out.resp.status = 201
                  /\ SignedUp(users, workspaces, members, email, out)
             ELSE /\ out.resp.status = 400 /\ out.resp.code = "EMAIL_TAKEN"
                  /\ out.users = users /\ out.workspaces = workspaces
                  /\ out.members = members /\ out.sessions = sessions)
  /\ []((resp.op = "signup" /\ resp.status = 201) =>
          /\ resp.caller = Len(users)
          /\ \E w \in WithDomain(workspaces, ToLowerCase(users[resp.caller].email.domain)) :
               /\ workspaces[w].kind = "CUSTOMER"
               /\ Member(w, resp.caller, "MEMBER") \in members
          /\ OnAllowList(users[resp.caller].email) =>
               /\ Member(SupportOpsId, resp.caller, "ADMIN") \in members
               /\ IsSupportAgent(workspaces, members, resp.caller))
  /\ [][users' # users =>
          /\ Len(users') = Len(users) + 1
          /\ resp'.op = "signup" /\ resp'.status = 201
          /\ Cardinality(members') =
               Cardinality(members) + (IF OnAllowList(users'[Len(users')].email) THEN 2 ELSE 1)
          /\ Len(workspaces') \in {Len(workspaces), Len(workspaces) + 1}]_vars

\* C20 witness: the first address of the allow-listed domain has just signed
\* up: its tenant was created, and the new user is an elevated agent.
C20_Witness ==
  /\ resp.op = "signup" /\ resp.status = 201
  /\ users[resp.caller].email = Email("agent", "Support.Local")
  /\ Len(workspaces) = Len(SeedWorkspaces) + 1
  /\ workspaces[Len(workspaces)].domain = "support.local"
  /\ Member(Len(workspaces), resp.caller, "MEMBER") \in members
  /\ IsSupportAgent(workspaces, members, resp.caller)
  /\ \E i \in 1..Len(users) : users[i].email = Email("new", "Example.COM")

-----------------------------------------------------------------------------
(* Signups whose datastore calls interleave *)

\* The error middleware's answer when a handler fails.
InternalError(op, arg) == Response(op, arg, 0, 500, "INTERNAL", "Unexpected error")

\* What the caller sees when an async handler throws: the error middleware's
\* 500 where the framework forwards the rejected promise to it, and no answer
\* at all where it does not.
FailedResponses(op, arg) == {InternalError(op, arg), resp}

\* User_email_key: user.create succeeds only for an email no row has.
UserEmailKeyUnchecked(us, email) == TRUE
UserEmailKey(us, email) == FindUserByEmail(us, email) = NoRow

\* findUnique({where: {email}}); a taken email is answered at once.
SignupFind(c) ==
  /\ req[c].pc = "idle"
  /\ \E email \in SignupSpecEmails :
       IF FindUserByEmail(users, email) # NoRow
       THEN /\ resp' = SignupHandler(users, workspaces, members, sessions, tokenCount, now,
                                     email, MEMBER_PASSWORD).resp
            /\ UNCHANGED req
       ELSE /\ req' = [req EXCEPT ![c] = [pc |-> "checked", token |-> NoToken,
                                          session |-> NoRow, userId |-> 0, email |-> email]]
            /\ UNCHANGED resp
  /\ UNCHANGED <<users, workspaces, members, tickets, sessions, now, tokenCount, okCount>>

\* user.create and the rest of the handler; the unique index refuses the
\* insert when the email was taken since the lookup, and the handler throws.
SignupCreate(c) ==
  /\ req[c].pc = "checked"
  /\ req' = [req EXCEPT ![c] = NoRequest]
  /\ IF UserEmailKey(users, req[c].email)
     THEN LET out == SignupProvision(users, workspaces, members, sessions, tokenCount, now,
                                     req[c].email, MEMBER_PASSWORD)
          IN /\ Len(out.sessions) <= MaxSessions
             /\ users' = out.users
             /\ workspaces' = out.workspaces
             /\ members' = out.members
             /\ sessions' = out.sessions
             /\ tokenCount' = out.tokenCount
             /\ resp' = out.resp
     ELSE /\ resp' \in FailedResponses("signup", 0)
          /\ UNCHANGED <<users, workspaces, members, sessions, tokenCount>>
  /\ UNCHANGED <<tickets, now, okCount>>

SignupRaceNext ==
  \/ SignupAny
  \/ \E c \in 1..NumClients : SignupFind(c)
  \/ \E c \in 1..NumClients : SignupCreate(c)
  \/ Tick

SignupRaceSpec == Init /\ [][SignupRaceNext]_vars

-----------------------------------------------------------------------------
(* Properties of signup with a taken email *)

\* C21: a signup whose email already belongs to a user is answered 400
\* EMAIL_TAKEN, sets no cookie and creates no user, tenant, membership or
\* session; an insert of an email taken since the lookup is refused too and
\* changes nothing; so in every state no two users share an email.
C21_DuplicateSignupRejected ==
  /\ [](\A email \in SignupSpecEmails :
          FindUserByEmail(users, email) # NoRow =>
            LET out == SignupHandler(users, workspaces, members, sessions, tokenCount, now,
                                     email, MEMBER_PASSWORD)
            IN /\ out.resp.status = 400 /\ out.resp.code = "EMAIL_TAKEN"
               /\ out.resp.access = NoCookie /\ out.resp.refresh = NoCookie
               /\ out.users = users /\ out.workspaces = workspaces
               /\ out.members = members /\ out.sessions = sessions
               /\ out.tokenCount = tokenCount)
  /\ [](\A i, j \in 1..Len(users) : users[i].email = users[j].email => i = j)
  /\ [](resp.op = "signup" /\ resp.status # 201 =>
          resp.access = NoCookie /\ resp.refresh = NoCookie)
  /\ [][\A email \in SignupSpecEmails :
          FindUserByEmail(users, email) # NoRow =>
            /\ FindUserByEmail(users', email) = FindUserByEmail(users, email)
            /\ Len(users') - Len(users) = Len(sessions') - Len(sessions)
            /\ Len(users') - Len(users) \in {0, 1}]_vars

\* C21 witness: a signup has just been answered EMAIL_TAKEN for an address
\* that signed up during the run, while another signup is between its lookup
\* and its insert.
C21_Witness ==
  /\ resp.op = "signup" /\ resp.code = "EMAIL_TAKEN"
  /\ Len(users) > Len(SeedUsers)
  /\ \E c \in 1..NumClients : req[c].pc = "checked"

-----------------------------------------------------------------------------
(* Properties of login and of the session ledger *)

\* The credentials a client may type: the seeded users and an unknown
\* address, each with a right and a wrong password.
TypedEmails == {ADMIN_EMAIL, MEMBER_EMAIL, MEMBER2_EMAIL, Email("nobody", "demo.local")}
TypedPasswords == {ADMIN_PASSWORD, MEMBER_PASSWORD, "Wrong123!"}
GoodCredentials(email, password) ==
  \E i \in 1..Len(users) :
    users[i].email = email /\ users[i].passwordHash = HashPassword(password)

\* C22: login with an unknown email or with a wrong password is answered 401
\* INVALID_CREDENTIALS, with the same body in both cases; it creates no
\* session, draws no token and sets no cookie.  Good credentials are let in.
C22_InvalidCredentialsUniform ==
  /\ [](\A email \in TypedEmails, password \in TypedPasswords :
          LET out == LoginHandler(users, sessions, tokenCount, now, email, password)
          IN IF GoodCredentials(email, password)
             THEN out.resp.status = 200
             ELSE /\ Observable(out.resp) =
                       Observable(Response("login", 0, 0, 401, "INVALID_CREDENTIALS",
                                           "Invalid email or password"))
                  /\ out.resp.access = NoCookie /\ out.resp.refresh = NoCookie
                  /\ out.sessions = sessions
                  /\ out.tokenCount = tokenCount)
  /\ [](LoginHandler(users, sessions, tokenCount, now,
                     Email("nobody", "demo.local"), MEMBER_PASSWORD).resp =
        LoginHandler(users, sessions, tokenCount, now, MEMBER_EMAIL, "Wrong123!").resp)
  /\ [][(Login /\ resp'.status # 200) =>
          /\ resp'.status = 401 /\ resp'.code = "INVALID_CREDENTIALS"
          /\ resp'.access = NoCookie /\ resp'.refresh = NoCookie
          /\ sessions' = sessions]_vars

\* C22 witness: a login has just been refused while the user the client
\* named, or another one, holds a live session.
C22_Witness ==
  /\ resp.op = "login" /\ resp.status = 401 /\ resp.code = "INVALID_CREDENTIALS"
  /\ \E i \in 1..Len(sessions) : Live(sessions[i], now)

LiveSessionsOf(ss, userId, t) ==
  {i \in 1..Len(ss) : ss[i].userId = userId /\ Live(ss[i], t)}

\* C23: signup and login leave every existing session row as it was, so
\* every session live before the request is live after it, and a login of a
\* user who holds live sessions gives that user one more.
C23_LoginTouchesNoSession ==
  /\ [](\A email \in LoginEmails \cup SignupEmails, password \in Passwords :
          LET in == LoginHandler(users, sessions, tokenCount, now, email, password)
              up == SignupHandler(users, workspaces, members, sessions, tokenCount, now,
                                  email, password)
          IN /\ SubSeq(in.sessions, 1, Len(sessions)) = sessions
             /\ SubSeq(up.sessions, 1, Len(sessions)) = sessions
             /\ in.resp.status = 200 =>
                  Cardinality(LiveSessionsOf(in.sessions, in.resp.caller, now)) =
                    Cardinality(LiveSessionsOf(sessions, in.resp.caller, now)) + 1)
  /\ [][(resp'.op \in {"signup", "login"} /\ now' = now) =>
          /\ Len(sessions') >= Len(sessions)
          /\ SubSeq(sessions', 1, Len(sessions)) = sessions
          /\ \A i \in 1..Len(sessions) : Live(sessions[i], now) => Live(sessions'[i], now')]_vars

\* C23 witness: a login has just succeeded and its user holds two live sessions.
C23_Witness ==
  /\ resp.op = "login" /\ resp.status = 200
  /\ Cardinality(LiveSessionsOf(sessions, resp.caller, now)) >= 2

\* The refreshes answered 200 so far, over all presented tokens.
RECURSIVE SumOkCount(_)
SumOkCount(n) == IF n = 0 THEN 0 ELSE okCount[n] + SumOkCount(n - 1)
CompletedRefreshes == SumOkCount(MaxSessions)
\* Every 200 or 201 draws one refresh token; those not drawn by a refresh
\* were drawn by a login.
CompletedLogins == tokenCount - CompletedRefreshes

\* C24: each completed login adds one live session and each completed refresh
\* adds one and revokes the presented one, leaving the number of live sessions
\* unchanged: whenever no request is in flight, there are as many live
\* sessions as logins have completed.
C24_RefreshKeepsLiveCount ==
  (\A c \in 1..NumClients : req[c].pc = "idle") =>
    Cardinality(LiveIds(sessions, now)) = CompletedLogins

-----------------------------------------------------------------------------
(* Login and refresh when the last steps of the handler can fail *)

\* getSecret: JWT_ACCESS_SECRET must be set and at least 16 characters long.
MinSecretLength == 16
GetSecretThrows(secretLength) == secretLength < MinSecretLength

\* The deployment a request meets: the length of JWT_ACCESS_SECRET (0 when
\* unset) and whether refreshSession.create goes through.
Envs == [secretLength : {0, 8, 16}, createOk : BOOLEAN]

\* setAuthCookiesAndRespond: refreshSession.create, then createAccessToken,
\* then the cookies and the answer; a throw ends the handler where it happens.
SetAuthCookiesAndRespondUnder(env, failure, ss, op, arg, userId, refreshToken, refreshTokenHash, statusCode, t) ==
  IF ~env.createOk
  THEN [sessions |-> ss, resp |-> failure]
  ELSE IF GetSecretThrows(env.secretLength)
  THEN [sessions |-> CreateSession(ss, userId, refreshTokenHash, t), resp |-> failure]
  ELSE SetAuthCookiesAndRespond(ss, op, arg, userId, refreshToken, refreshTokenHash,
                                statusCode, t)

LoginHandlerUnder(env, failure, us, ss, n, t, email, password) ==
  LET uid == FindUserByEmail(us, email)
  IN IF uid = NoRow \/ ~CompareSync(password, us[uid].passwordHash)
     THEN [sessions |-> ss, tokenCount |-> n,
           resp |-> Response("login", 0, 0, 401, "INVALID_CREDENTIALS", "Invalid email or password")]
     ELSE
       LET refreshToken == GenerateRefreshToken(n)
           out == SetAuthCookiesAndRespondUnder(env, failure, ss, "login", 0, uid, refreshToken,
                    HashRefreshToken(refreshToken), 200, t)
       IN [sessions |-> out.sessions, tokenCount |-> n + 1, resp |-> out.resp]

RefreshHandlerUnder(env, failure, ss, n, t, tok) ==
  IF tok = NoToken
  THEN [sessions |-> ss, tokenCount |-> n,
        resp |-> Response("refresh", tok, 0, 401, "UNAUTHORIZED", "Refresh token required")]
  ELSE
    LET hash == HashRefreshToken(tok)
        id == FindFirstByHash(ss, hash)
    IN IF SessionRejected(ss, id, t)
       THEN [sessions |-> ss, tokenCount |-> n, resp |-> RefreshRejected(tok, ss, id)]
       ELSE
         LET revoked == RevokeSession(ss, id, t)
             newRefreshToken == GenerateRefreshToken(n)
             out == SetAuthCookiesAndRespondUnder(env, failure, revoked, "refresh", tok,
                      ss[id].userId, newRefreshToken, HashRefreshToken(newRefreshToken), 200, t)
         IN [sessions |-> out.sessions, tokenCount |-> n + 1, resp |-> out.resp]

FaultyLogin ==
  \E password \in Passwords, env \in Envs, failure \in FailedResponses("login", 0) :
    LET out == LoginHandlerUnder(env, failure, users, sessions, tokenCount, now,
                                 MEMBER_EMAIL, password)
    IN /\ Len(out.sessions) <= MaxSessions
       /\ out.tokenCount <= MaxSessions
       /\ sessions' = out.sessions
       /\ tokenCount' = out.tokenCount
       /\ resp' = out.resp
       /\ UNCHANGED <<users, workspaces, members, tickets, now, okCount, req>>

FaultyRefresh ==
  \E tok \in PresentedTokens(tokenCount), env \in Envs :
  \E failure \in FailedResponses("refresh", tok) :
    LET out == RefreshHandlerUnder(env, failure, sessions, tokenCount, now, tok)
    IN /\ Len(out.sessions) <= MaxSessions
       /\ out.tokenCount <= MaxSessions
       /\ sessions' = out.sessions
       /\ tokenCount' = out.tokenCount
       /\ resp' = out.resp
       /\ okCount' = IF out.resp # resp /\ out.resp.status = 200
                     THEN [okCount EXCEPT ![tok] = @ + 1]
                     ELSE okCount
       /\ UNCHANGED <<users, workspaces, members, tickets, now, req>>

FaultNext == FaultyLogin \/ FaultyRefresh \/ Tick

FaultSpec == Init /\ [][FaultNext]_vars

\* C25: login and refresh are all-or-nothing: a step that creates or revokes
\* a session row also delivers the new row's refresh token and an access
\* token to the caller; a request that fails part-way leaves the session
\* ledger as it was.
C25_AllOrNothing ==
  [][sessions' # sessions =>
       /\ resp' # resp
       /\ Issues(resp')
       /\ resp'.access # NoCookie
       /\ sessions'[Len(sessions')].refreshTokenHash = HashRefreshToken(IssuedBy(resp'))]_vars

-----------------------------------------------------------------------------
(* Properties of session liveness and of the token hashes *)

\* C26: session liveness is monotone.  No step changes a row's expiresAt or
\* sets its revokedAt back to null, rows are never removed and the clock
\* never goes back, so a session that is revoked or expired is not live in
\* any later state; and refresh refuses every issued token whose session is
\* not live, changing nothing.
C26_LivenessMonotone ==
  /\ [](\A tok \in IssuedTokens :
          ~Live(sessions[SessionOf(tok)], now) =>
            /\ RefreshNow(tok).resp.status = 401
            /\ RefreshNow(tok).sessions = sessions)
  /\ [][ /\ now' >= now
         /\ Len(sessions') >= Len(sessions)
         /\ \A i \in 1..Len(sessions) :
              /\ sessions'[i].expiresAt = sessions[i].expiresAt
              /\ sessions'[i].refreshTokenHash = sessions[i].refreshTokenHash
              /\ sessions[i].revokedAt # NullDate => sessions'[i].revokedAt # NullDate
              /\ ~Live(sessions[i], now) => ~Live(sessions'[i], now')
         /\ (resp'.op = "refresh" /\ resp'.status = 200 /\ tokenCount' # tokenCount) =>
              Live(sessions[SessionOf(resp'.arg)], now) ]_vars

\* C26 witness: the token of a session that was never revoked and has expired
\* has just been refused by refresh, and another session is revoked.
C26_Witness ==
  /\ resp.op = "refresh" /\ resp.status = 401 /\ resp.arg \in IssuedTokens
  /\ sessions[SessionOf(resp.arg)].revokedAt = NullDate
  /\ sessions[SessionOf(resp.arg)].expiresAt < now
  /\ RevokedIds(sessions) # {}

\* C30: in every state no two session rows carry the same refresh-token
\* hash, each row's hash is the hash of one issued token, and refresh and
\* logout pick their rows by the hash of the presented token only: a step of
\* either changes no row with another hash, and the row refresh finds is the
\* one row with that hash.
C30_HashIdentifiesSession ==
  /\ [](\A i, j \in 1..Len(sessions) :
          sessions[i].refreshTokenHash = sessions[j].refreshTokenHash => i = j)
  /\ [](\A i \in 1..Len(sessions) :
          \E tok \in IssuedTokens : sessions[i].refreshTokenHash = HashRefreshToken(tok))
  /\ [](\A tok \in IssuedTokens :
          /\ MatchingIds(sessions, tok) = {SessionOf(tok)}
          /\ \A other \in IssuedTokens \ {tok} : HashRefreshToken(other) # HashRefreshToken(tok))
  /\ [][(resp'.op \in {"refresh", "logout"} /\ now' = now) =>
          \A i \in 1..Len(sessions) :
            sessions'[i] # sessions[i] =>
              sessions[i].refreshTokenHash = HashRefreshToken(resp'.arg)]_vars

\* C30 witness: a refresh has just rotated a token while the ledger is full:
\* its rows, some revoked and some live, all carry different hashes.
C30_Witness ==
  /\ resp.op = "refresh" /\ resp.status = 200
  /\ Len(sessions) = MaxSessions
  /\ Cardinality({sessions[i].refreshTokenHash : i \in 1..Len(sessions)}) = MaxSessions
  /\ RevokedIds(sessions) # {} /\ LiveIds(sessions, now) # {}

-----------------------------------------------------------------------------
(* The /auth router behind originCheck and the rate limiter *)

WEB_ORIGIN == "http://localhost:3000"
\* A request without an Origin header.
NoOrigin == ""

\* originCheck: "next" hands the request on, "forbidden" answers 403.
OriginCheckAllowsAll(origin) == "next"
OriginCheck(origin) ==
  IF origin # NoOrigin /\ origin # WEB_ORIGIN THEN "forbidden" ELSE "next"

AuthRequest(op, email, password, token) ==
  [op |-> op, email |-> email, password |-> password, token |-> token]

\* The stored rows the auth handlers read and write.
AuthState(us, ws, ms, ss, n) ==
  [users |-> us, workspaces |-> ws, members |-> ms, sessions |-> ss, tokenCount |-> n]

\* A request answered without touching the rows.
Answered(st, r) ==
  [users |-> st.users, workspaces |-> st.workspaces, members |-> st.members,
   sessions |-> st.sessions, tokenCount |-> st.tokenCount, resp |-> r]

\* authRoutes: the four handlers.
AuthRoutes(st, t, r) ==
  CASE r.op = "signup" ->
         SignupHandler(st.users, st.workspaces, st.members, st.sessions, st.tokenCount, t,
                       r.email, r.password)
    [] r.op = "login" ->
         LET out == LoginHandler(st.users, st.sessions, st.tokenCount, t, r.email, r.password)
         IN [Answered(st, out.resp) EXCEPT
               !.sessions = out.sessions, !.tokenCount = out.tokenCount]
    [] r.op = "refresh" ->
         LET out == RefreshHandler(st.sessions, st.tokenCount, t, r.token)
         IN [Answered(st, out.resp) EXCEPT
               !.sessions = out.sessions, !.tokenCount = out.tokenCount]
    [] OTHER ->
         LET out == LogoutHandler(st.sessions, t, r.token)
         IN [Answered(st, out.resp) EXCEPT !.sessions = out.sessions]

\* app.use("/auth", originCheck, authRateLimiter, authRoutes); `limited` says
\* whether the client has used up its 20 requests of the 15-minute window.
AuthRouter(st, t, origin, limited, r) ==
  IF OriginCheck(origin) = "forbidden"
  THEN Answered(st, Response(r.op, r.token, 0, 403, "ORIGIN_FORBIDDEN",
                             "Request origin not allowed"))
  ELSE IF limited
  THEN Answered(st, Response(r.op, r.token, 0, 429, "RATE_LIMITED", "Too many requests"))
  ELSE AuthRoutes(st, t, r)

\* The Origin headers clients send: none, the frontend's, and others, among
\* them the frontend's with a trailing slash and the opaque origin "null".
Origins ==
  {NoOrigin, WEB_ORIGIN, "https://evil.example", "http://localhost:3000/", "null"}

AuthRequests(n) ==
  {AuthRequest("signup", email, MEMBER_PASSWORD, NoToken) : email \in SignupEmails}
    \cup {AuthRequest("login", MEMBER_EMAIL, password, NoToken) : password \in Passwords}
    \cup {AuthRequest(op, MEMBER_EMAIL, MEMBER_PASSWORD, tok) :
            op \in {"refresh", "logout"}, tok \in PresentedTokens(n)}

\* The requests sent in a run: a signup, a login, and a refresh and a
\* logout of the token issued last, each from the frontend, from elsewhere or
\* without an Origin header.
SentOrigins == {NoOrigin, WEB_ORIGIN, "https://evil.example"}
SentRequests(n) ==
  {AuthRequest("signup", Email("new", "Example.COM"), MEMBER_PASSWORD, NoToken),
   AuthRequest("login", MEMBER_EMAIL, MEMBER_PASSWORD, NoToken)}
    \cup {AuthRequest(op, MEMBER_EMAIL, MEMBER_PASSWORD, n) : op \in {"refresh", "logout"}}

GatedAuth ==
  \E origin \in SentOrigins, limited \in BOOLEAN, r \in SentRequests(tokenCount) :
    LET out == AuthRouter(AuthState(users, workspaces, members, sessions, tokenCount),
                          now, origin, limited, r)
    IN /\ Len(out.sessions) <= MaxSessions
       /\ users' = out.users
       /\ workspaces' = out.workspaces
       /\ members' = out.members
       /\ sessions' = out.sessions
       /\ tokenCount' = out.tokenCount
       /\ resp' = out.resp
       /\ UNCHANGED <<tickets, now, okCount, req>>

GateNext == GatedAuth \/ Tick

GateSpec == Init /\ [][GateNext]_vars

\* C27: on signup, login, refresh and logout a request whose Origin header
\* is present and is not the frontend origin is answered 403 ORIGIN_FORBIDDEN
\* with no cookie, whatever it carries, and no user, tenant, membership or
\* session is created or revoked; a request with the frontend origin or with
\* no Origin header passes the gate and, when the rate limiter lets it
\* through, gets exactly what the handler does and answers.
C27_OriginGate ==
  /\ [](\A r \in AuthRequests(tokenCount), limited \in BOOLEAN :
          LET st == AuthState(users, workspaces, members, sessions, tokenCount)
          IN /\ \A origin \in Origins \ {NoOrigin, WEB_ORIGIN} :
                  LET out == AuthRouter(st, now, origin, limited, r)
                  IN /\ out.resp.status = 403 /\ out.resp.code = "ORIGIN_FORBIDDEN"
                     /\ out.resp.access = NoCookie /\ out.resp.refresh = NoCookie
                     /\ out = Answered(st, out.resp)
             /\ \A origin \in {NoOrigin, WEB_ORIGIN} :
                  /\ OriginCheck(origin) = "next"
                  /\ AuthRouter(st, now, origin, FALSE, r) = AuthRoutes(st, now, r)
                  /\ AuthRouter(st, now, origin, limited, r).resp.status # 403)
  /\ [][resp'.code = "ORIGIN_FORBIDDEN" =>
          UNCHANGED <<users, workspaces, members, sessions, tokenCount>>]_vars

\* C27 witness: a logout that presented the token of a live session from a
\* foreign origin has just been refused, and the session is still live.
C27_Witness ==
  /\ resp.op = "logout" /\ resp.status = 403 /\ resp.code = "ORIGIN_FORBIDDEN"
  /\ resp.arg \in IssuedTokens
  /\ Live(sessions[SessionOf(resp.arg)], now)
  /\ RevokedIds(sessions) # {}

-----------------------------------------------------------------------------
(* Routes behind requireAuth while users come and go *)

\* app.use("/workspaces", requireAuth, workspacesRoutes): ticket creation as
\* the client reaches it, with its access_token cookie.
AuthedCreateTicket(us, tk, ws, ms, t, token, workspaceId, title) ==
  LET auth == RequireAuth(us, t, token)
  IN IF auth.status = 401
     THEN [tickets |-> tk,
           resp |-> Response("createTicket", workspaceId, 0, 401, "UNAUTHORIZED", auth.message)]
     ELSE CreateTicketHandler(tk, ws, ms, t, auth.userId, workspaceId, title)

\* What a client may send as access_token, given the cookie the last response
\* left it: nothing, that cookie, the same claims signed with a guessed key,
\* unsigned with alg none, or signed with another algorithm.
PresentedAccessTokens(r) ==
  LET held == HeldAccessToken(r)
  IN {NoAccessToken, held,
      [held EXCEPT !.key = "not-the-secret"],
      [held EXCEPT !.alg = "none", !.key = ""],
      [held EXCEPT !.alg = "HS512"]}

\* One visitor signs up before anyone has logged in.
AuthSignup ==
  /\ tokenCount = 0
  /\ LET out == SignupHandler(users, workspaces, members, sessions, tokenCount, now,
                              Email("new", "Example.COM"), MEMBER_PASSWORD)
     IN /\ users' = out.users
        /\ workspaces' = out.workspaces
        /\ members' = out.members
        /\ sessions' = out.sessions
        /\ tokenCount' = out.tokenCount
        /\ resp' = out.resp
        /\ UNCHANGED <<tickets, now, okCount, req>>

AuthLogin ==
  LET out == LoginHandler(users, sessions, tokenCount, now, MEMBER_EMAIL, MEMBER_PASSWORD)
  IN /\ Len(out.sessions) <= MaxSessions
     /\ out.tokenCount <= MaxSessions
     /\ sessions' = out.sessions
     /\ tokenCount' = out.tokenCount
     /\ resp' = out.resp
     /\ UNCHANGED <<users, workspaces, members, tickets, now, okCount, req>>

\* The operators of the deployment delete the user who signed up.  The
\* memberships and sessions go with the row (ON DELETE CASCADE); a user who
\* created a ticket cannot be deleted (ON DELETE RESTRICT).
DeleteUser ==
  /\ Len(users) > Len(SeedUsers)
  /\ \A i \in 1..Len(tickets) :
       /\ tickets[i].createdByUserId # Len(users)
       /\ \A j \in 1..Len(tickets[i].messages) : tickets[i].messages[j] # Len(users)
  /\ users' = SubSeq(users, 1, Len(users) - 1)
  /\ members' = {m \in members : m.userId # Len(users)}
  /\ sessions' = SelectSeq(sessions, LAMBDA session : session.userId # Len(users))
  /\ UNCHANGED <<workspaces, tickets, now, tokenCount, resp, okCount, req>>

AuthMe ==
  \E token \in PresentedAccessTokens(resp) :
    /\ resp' = MeHandler(users, now, token)
    /\ UNCHANGED <<users, workspaces, members, tickets, sessions, now, tokenCount, okCount, req>>

AuthCreate ==
  \E token \in PresentedAccessTokens(resp), workspaceId \in {DemoWorkspaceId, ExampleWorkspaceId} :
    LET out == AuthedCreateTicket(users, tickets, workspaces, members, now, token,
                                  workspaceId, "Cannot log in")
    IN /\ Len(out.tickets) <= MaxTickets
       /\ tickets' = out.tickets
       /\ resp' = out.resp
       /\ UNCHANGED <<users, workspaces, members, sessions, now, tokenCount, okCount, req>>

AuthNext == AuthSignup \/ AuthLogin \/ DeleteUser \/ AuthMe \/ AuthCreate \/ Tick

AuthSpec == Init /\ [][AuthNext]_vars

\* Every token a client could present: each subject up to one past the last
\* user, expiry reached or not, each algorithm and each key.
CandidateTokens ==
  {NoAccessToken} \cup
    [sub : 0..(Len(users) + 1),
     exp : {now, now + 1, now + ACCESS_TOKEN_TTL_SEC * 1000},
     alg : {"HS256", "HS512", "none"},
     key : {JWT_ACCESS_SECRET, "not-the-secret", ""}]

ValidNow(token) ==
  /\ token.alg = "HS256"
  /\ token.key = JWT_ACCESS_SECRET
  /\ now < token.exp
  /\ token.sub \in 1..Len(users)

\* C28: requireAuth lets a request through, as the token's subject, iff the
\* access_token is signed with the secret under HS256, its expiry has not
\* been reached, and its subject is a user that has a row now; with no token,
\* another key, another algorithm, an expired token or a user deleted since
\* the token was issued it answers 401 UNAUTHORIZED and the route handler
\* does not run: nothing is written.
C28_RequireAuthIffValid ==
  /\ [](\A token \in CandidateTokens :
          LET auth == RequireAuth(users, now, token)
              made == AuthedCreateTicket(users, tickets, workspaces, members, now, token,
                                         DemoWorkspaceId, "Cannot log in")
          IN /\ auth.status = 200 <=> ValidNow(token)
             /\ auth.status = 200 => auth.userId = token.sub
             /\ auth.status # 200 =>
                  /\ auth.status = 401
                  /\ Observable(MeHandler(users, now, token)) =
                       Observable(Response("me", 0, 0, 401, "UNAUTHORIZED", auth.message))
                  /\ made.resp.status = 401 /\ made.resp.code = "UNAUTHORIZED"
                  /\ made.tickets = tickets
             /\ auth.status = 200 =>
                  made = CreateTicketHandler(tickets, workspaces, members, now, token.sub,
                                             DemoWorkspaceId, "Cannot log in"))
  /\ [][ /\ (resp' # resp /\ resp'.op = "me" /\ resp'.status = 200) =>
              resp'.caller \in 1..Len(users)
         /\ tickets' # tickets =>
              (resp'.status = 201 /\ resp'.caller \in 1..Len(users)) ]_vars

\* C28 witness: the user who signed up was deleted, and the access token
\* issued at signup, not yet expired, has just been refused.
C28_Witness ==
  /\ resp.op = "me" /\ resp.status = 401 /\ resp.message = "User not found"
  /\ Len(users) = Len(SeedUsers)
  /\ tokenCount > 0

-----------------------------------------------------------------------------
(* Ticket creation when the transaction can fail *)

\* A transaction that leaves the ticket row behind when the nested message
\* insert fails.
TransactionKeepsTicket(before, after, commits) ==
  IF commits \/ after = before
  THEN after
  ELSE [after EXCEPT ![Len(after)].messages = <<>>]

\* prisma.$transaction around tx.ticket.create with its nested
\* messages.create: both rows are written, or the transaction throws and
\* neither is.
Transaction(before, after, commits) == IF commits THEN after ELSE before

\* POST /workspaces/:workspaceId/tickets; when the transaction throws the
\* handler sends nothing itself.
CreateTicketTx ==
  \E in \in CreateInputs, title \in CreateTitles, commits \in BOOLEAN :
    \E failure \in FailedResponses("createTicket", in[2]) :
      LET out == CreateTicketHandler(tickets, workspaces, members, now, in[1], in[2], title)
          committed == Transaction(tickets, out.tickets, commits)
      IN /\ Len(committed) <= MaxTickets
         /\ MessageRows(committed) <= MaxMessages
         /\ tickets' = committed
         /\ resp' = IF commits \/ out.tickets = tickets THEN out.resp ELSE failure
         /\ UNCHANGED <<users, workspaces, members, sessions, now, tokenCount, okCount, req>>

TxNext == SetRole \/ CreateTicketTx \/ GetTicket \/ Reply \/ Patch

TxSpec == Init /\ [][TxNext]_vars

\* C29: every stored ticket, hence every ticket a request can read, has at
\* least one message and its first message is by the ticket's creator; a
\* step that adds a ticket adds it with exactly that opening message and
\* answers 201, and a creation whose transaction fails adds neither row.
C29_TicketHasOpeningMessage ==
  /\ [](\A i \in 1..Len(tickets) :
          /\ Len(tickets[i].messages) >= 1
          /\ tickets[i].messages[1] = tickets[i].createdByUserId)
  /\ [][ /\ Len(tickets') >= Len(tickets)
         /\ MessageRows(tickets') >= MessageRows(tickets)
         /\ Len(tickets') > Len(tickets) =>
              /\ Len(tickets') = Len(tickets) + 1
              /\ SubSeq(tickets', 1, Len(tickets)) = tickets
              /\ tickets'[Len(tickets')].messages = <<tickets'[Len(tickets')].createdByUserId>>
              /\ MessageRows(tickets') = MessageRows(tickets) + 1
              /\ resp'.op = "createTicket" /\ resp'.status = 201
              /\ resp'.caller = tickets'[Len(tickets')].createdByUserId
         /\ (resp'.op = "createTicket" /\ resp'.status # 201) => tickets' = tickets ]_vars

\* C29 witness: a creation has just failed in its transaction and left no
\* row, while an earlier ticket holds its creator's opening message followed
\* by somebody else's reply.
C29_Witness ==
  /\ resp.op = "createTicket" /\ resp.status = 500
  /\ \E i \in 1..Len(tickets) :
       /\ Len(tickets[i].messages) >= 2
       /\ tickets[i].messages[1] = tickets[i].createdByUserId
       /\ tickets[i].messages[2] # tickets[i].createdByUserId

-----------------------------------------------------------------------------
(* Properties of authorization as a function of the stored rows *)

-----------------------------------------------------------------------------
(* Properties of the holder of a session *)

\* The sessions stored under the hash of a presented refresh token.
PresentedSessions(ss, tok) ==
  {id \in 1..Len(ss) : ss[id].refreshTokenHash = HashRefreshToken(tok)}

\* C32: a successful refresh issues its new session and its new access token
\* to the user of the session that was presented, and to nobody else; every
\* session row and every access token a response carries belong to the user
\* the response was given to, so what one user obtains through signup,
\* login, refresh and logout never has another user as its subject.
C32_RefreshKeepsHolder ==
  /\ [][(resp'.op = "refresh" /\ resp'.status = 200 /\ sessions' # sessions) =>
          /\ PresentedSessions(sessions, resp'.arg) # {}
          /\ \A id \in PresentedSessions(sessions, resp'.arg) :
               /\ sessions'[Len(sessions')].userId = sessions[id].userId
               /\ HeldAccessToken(resp').sub = sessions[id].userId
               /\ resp'.caller = sessions[id].userId
          /\ Len(sessions') = Len(sessions) + 1
          /\ sessions'[Len(sessions')].refreshTokenHash =
               HashRefreshToken(HeldRefreshToken(resp'))
          /\ \A id \in 1..Len(sessions) : sessions'[id].userId = sessions[id].userId]_vars
  /\ [](\A tok \in PresentedTokens(tokenCount) :
          LET out == RefreshHandler(sessions, tokenCount, now, tok)
          IN out.resp.status = 200 =>
               \A id \in PresentedSessions(sessions, tok) :
                 /\ out.sessions[Len(out.sessions)].userId = sessions[id].userId
                 /\ HeldAccessToken(out.resp).sub = sessions[id].userId)
  /\ []((resp.status \in {200, 201} /\ resp.op \in {"signup", "login", "refresh"}) =>
          /\ HeldAccessToken(resp).sub = resp.caller
          /\ \A id \in PresentedSessions(sessions, HeldRefreshToken(resp)) :
               sessions[id].userId = resp.caller)

\* C32 witness: a user has just refreshed their session while the most recent
\* session in the ledger belonged to somebody else, and was given a session
\* and an access token of their own.
C32_Witness ==
  /\ resp.op = "refresh" /\ resp.status = 200
  /\ Len(sessions) >= 3
  /\ sessions[Len(sessions)].userId = resp.caller
  /\ sessions[Len(sessions) - 1].userId # resp.caller
  /\ HeldAccessToken(resp).sub = resp.caller

-----------------------------------------------------------------------------
(* The reply handler step by step: its access check and its insert are *)
(* separate awaits, and patches of other requests run between them.     *)

\* POST /tickets/:ticketId/messages up to the closed-ticket gate: body
\* validation, getTicketWithAccessCheck, the gate.  A request that passes
\* goes on to its insert with the ticket id it read.
ReplyCheck(c) ==
  /\ req[c].pc = "idle"
  /\ \E userId \in Callers, ticketId \in TicketIds(tickets), message \in ReplyBodies :
       LET out == ReplyHandler(tickets, workspaces, members, now, userId, ticketId, message)
       IN IF out.resp.status # 201
          THEN /\ resp' = out.resp
               /\ UNCHANGED req
          ELSE /\ req' = [req EXCEPT ![c] = [pc |-> "passed", token |-> NoToken, session |-> NoRow,
                                             userId |-> userId, ticket |-> ticketId]]
               /\ UNCHANGED resp
  /\ UNCHANGED <<users, workspaces, members, tickets, sessions, now, tokenCount, okCount>>

\* prisma.$transaction([ticketMessage.create, ticket.update]): the message is
\* inserted and updatedAt set, whatever the ticket's status is by now.
ReplyInsert(c) ==
  /\ req[c].pc = "passed"
  /\ MessageRows(tickets) < MaxMessages
  /\ tickets' = [tickets EXCEPT ![req[c].ticket].messages = Append(@, req[c].userId),
                                ![req[c].ticket].updatedAt = now]
  /\ resp' = Response("reply", req[c].ticket, req[c].userId, 201, "", "")
  /\ req' = [req EXCEPT ![c] = NoRequest]
  /\ UNCHANGED <<users, workspaces, members, sessions, now, tokenCount, okCount>>

ReplyRaceNext ==
  \/ CreateTicket
  \/ Patch
  \/ \E c \in 1..NumClients : ReplyCheck(c)
  \/ \E c \in 1..NumClients : ReplyInsert(c)

ReplyRaceSpec == Init /\ [][ReplyRaceNext]_vars

\* C33: with replies and patches interleaved at their datastore steps, a
\* message written to a ticket that is CLOSED when it is written is by a
\* workspace ADMIN or an elevated agent.
C33_NoReplyOnClosed ==
  [][\A i \in 1..Len(tickets) :
       (Len(tickets'[i].messages) > Len(tickets[i].messages) /\ tickets[i].status = "CLOSED") =>
         LET author == tickets'[i].messages[Len(tickets'[i].messages)]
         IN \/ IsSupportAgent(workspaces, members, author)
            \/ FindMembership(members, tickets[i].workspaceId, author) = "ADMIN"]_vars

-----------------------------------------------------------------------------
(* A client that walks the ticket list page by page while others write *)

\* The walks a client makes of the demo tenant's list by the default sort: the
\* agent's, and the tenant's MEMBER's.
Walkers == {<<AdminId, "createdAt">>, <<MemberId, "createdAt">>}

\* limit=1: every ticket is a page of its own.
WalkLimit == Param(<<"1">>)

\* The tickets the walk's filter matches in the present state.
Matching(userId, sort) ==
  LET role == RequireWorkspaceMember(workspaces, members, DemoWorkspaceId, userId).role
  IN Where(tickets, DemoWorkspaceId, EffectiveMine(role, "false"), userId,
           EffectiveSort(role, sort), NoParsedCursor)

\* What the client keeps of a walk: the sort it asked for, the cursor the
\* last page handed out, the ids of the items of the pages so far, and the
\* tickets that matched when the first page was asked for.
WalkState(userId, sort, r, seen, start) ==
  [pc |-> IF r.nextCursor = NoCursor THEN "done" ELSE "walking",
   token |-> NoToken, session |-> NoRow, userId |-> userId,
   sort |-> sort, cursor |-> r.nextCursor, seen |-> seen \o r.items, start |-> start]

\* GET /workspaces/:workspaceId/tickets?limit=1&sort=...: the first page.
WalkBegin(userId, sort) ==
  /\ req[1].pc = "idle"
  /\ LET r == ListTicketsHandler(tickets, workspaces, members, userId, DemoWorkspaceId,
                                 Query("false", WalkLimit, sort, EmptyString))
     IN /\ resp' = r
        /\ req' = [req EXCEPT ![1] = WalkState(userId, sort, r, << >>, Matching(userId, sort))]
  /\ UNCHANGED <<users, workspaces, members, tickets, sessions, now, tokenCount, okCount>>

WalkStart == \E w \in Walkers : WalkBegin(w[1], w[2])

\* The agent's walk by updatedAt.
UpdatedWalkStart == WalkBegin(AdminId, "updatedAt")

\* The next page, asked for with the nextCursor of the page before.
WalkPage ==
  /\ req[1].pc = "walking"
  /\ LET r == ListTicketsHandler(tickets, workspaces, members, req[1].userId, DemoWorkspaceId,
                                 Query("false", WalkLimit, req[1].sort, req[1].cursor))
     IN /\ resp' = r
        /\ req' = [req EXCEPT ![1] = WalkState(req[1].userId, req[1].sort, r,
                                               req[1].seen, req[1].start)]
  /\ UNCHANGED <<users, workspaces, members, tickets, sessions, now, tokenCount, okCount>>

\* The agent replies to a ticket of the list: its updatedAt moves to the
\* present.  The replies are bounded apart from the opening messages.
WalkReply ==
  \E ticketId \in 1..Len(tickets) :
    LET out == ReplyHandler(tickets, workspaces, members, now, AdminId, ticketId, "Any news?")
    IN /\ out.resp.status = 201
       /\ MessageRows(out.tickets) - Len(tickets) <= MaxTickets
       /\ tickets' = out.tickets
       /\ resp' = out.resp
       /\ UNCHANGED <<users, workspaces, members, sessions, now, tokenCount, okCount, req>>

WalkNext ==
  WalkStart \/ WalkPage \/ ListCreateTicket \/ ListPatch \/ WalkReply \/ Tick

WalkSpec == Init /\ [][WalkNext]_vars

UpdatedWalkNext ==
  UpdatedWalkStart \/ WalkPage \/ ListCreateTicket \/ ListPatch \/ WalkReply \/ Tick

UpdatedWalkSpec == Init /\ [][UpdatedWalkNext]_vars

\* A sequence without repetitions.
NoRepeat(seq) == \A i, j \in 1..Len(seq) : i # j => seq[i] # seq[j]
Range(seq) == {seq[i] : i \in 1..Len(seq)}

\* C35: in a walk sorted by createdAt, with tickets created, replied to and
\* patched between the page requests, no ticket is on two pages, and when
\* the walk ends every ticket that matched the filter when it started has
\* been on some page.
C35_CreatedAtWalkComplete ==
  (req[1].pc \in {"walking", "done"} /\ req[1].sort = "createdAt") =>
    /\ NoRepeat(req[1].seen)
    /\ req[1].pc = "done" => req[1].start \subseteq Range(req[1].seen)
    /\ Range(req[1].seen) \subseteq Matching(req[1].userId, req[1].sort)

\* C35 witness: a walk by createdAt over several pages has ended; meanwhile a
\* ticket was created that it did not start with, and one it started with
\* was updated.
C35_Witness ==
  /\ req[1].pc = "done" /\ req[1].sort = "createdAt"
  /\ Len(req[1].seen) >= 2
  /\ req[1].start = Range(req[1].seen)
  /\ \E i \in Matching(req[1].userId, req[1].sort) : i \notin req[1].start
  /\ \E i \in req[1].start : tickets[i].updatedAt > tickets[i].createdAt

\* C36: in a walk sorted by updatedAt, with replies and patches between the
\* page requests, no ticket is on two pages, and when the walk ends every
\* ticket that existed when it started has been on some page.
C36_UpdatedAtWalkComplete ==
  (req[1].pc \in {"walking", "done"} /\ req[1].sort = "updatedAt") =>
    /\ NoRepeat(req[1].seen)
    /\ req[1].pc = "done" => req[1].start \subseteq Range(req[1].seen)

-----------------------------------------------------------------------------
(* Properties of what a reply reveals *)

\* The caller may read the ticket, by the rows as they are stored.
ReadableBy(userId, ticketId) ==
  /\ ticketId \in 1..Len(tickets)
  /\ \/ Elevated(userId) /\ KindOf(ticketId) = "CUSTOMER"
     \/ RoleIn(userId, TenantOf(ticketId)) = "ADMIN"
     \/ RoleIn(userId, TenantOf(ticketId)) = "MEMBER" /\ CreatorOf(ticketId) = userId

\* C34: TICKET_CLOSED is answered only to callers who may read the ticket.  A
\* caller who may not read a ticket gets, for a reply to it, the 404 a reply
\* to a ticket that does not exist gets, whether the ticket is CLOSED or
\* not, and nothing is written.
C34_ClosedSignalNeedsReadAccess ==
  /\ \A userId \in Callers, ticketId \in TicketIds(tickets) :
       LET out == ReplyNow(userId, ticketId, "Any news?")
           missing == ReplyNow(userId, Len(tickets) + 1, "Any news?")
       IN /\ out.resp.code = "TICKET_CLOSED" =>
               (ReadableBy(userId, ticketId) /\ tickets[ticketId].status = "CLOSED")
          /\ ~ReadableBy(userId, ticketId) =>
               /\ Observable(out.resp) = Observable(missing.resp)
               /\ out.resp.status = 404 /\ out.resp.code = "NOT_FOUND"
               /\ out.tickets = tickets
  /\ (resp.op = "reply" /\ resp.code = "TICKET_CLOSED") =>
       (ReadableBy(resp.caller, resp.arg) /\ tickets[resp.arg].status = "CLOSED")

\* C34 witness: a user who may not read a CLOSED ticket has just replied to
\* it and been answered 404 NOT_FOUND, while the ticket's creator, who may
\* read it, is answered TICKET_CLOSED.
C34_Witness ==
  /\ resp.op = "reply" /\ resp.status = 404
  /\ resp.arg \in 1..Len(tickets)
  /\ tickets[resp.arg].status = "CLOSED"
  /\ ~ReadableBy(resp.caller, resp.arg)
  /\ ReplyNow(CreatorOf(resp.arg), resp.arg, "Any news?").resp.code = "TICKET_CLOSED"

-----------------------------------------------------------------------------
(* The ticket lists of two tenants *)

\* Who opens tickets where: the members in their tenants, the agent in one.
TenantCreateInputs ==
  { <<MemberId, DemoWorkspaceId>>, <<Member2Id, ExampleWorkspaceId>>,
    <<AdminId, DemoWorkspaceId>> }

TenantCreate ==
  \E in \in TenantCreateInputs :
    LET out == CreateTicketHandler(tickets, workspaces, members, now, in[1], in[2],
                                   "Cannot log in")
    IN /\ Len(out.tickets) <= MaxListed
       /\ tickets' = out.tickets
       /\ resp' = out.resp
       /\ UNCHANGED <<users, workspaces, members, sessions, now, tokenCount, okCount, req>>

\* Any caller lists either tenant, with no cursor, a malformed one, or the
\* nextCursor of the last list response, whichever workspace that was for.
TenantList ==
  \E userId \in Callers, workspaceId \in {DemoWorkspaceId, ExampleWorkspaceId},
     sort \in {"createdAt", "updatedAt"}, cursor \in ListCursors :
    /\ resp' = ListTicketsHandler(tickets, workspaces, members, userId, workspaceId,
                                  Query("false", WalkLimit, sort, cursor))
    /\ UNCHANGED <<users, workspaces, members, tickets, sessions, now, tokenCount, okCount, req>>

TenantNext == TenantCreate \/ TenantList

TenantSpec == Init /\ [][TenantNext]_vars

\* Cursors a client can write that parse: the date of the stored tickets or
\* a later one, with any ticket id; besides no cursor.
AnyCursors ==
  {EmptyString} \cup
    {EncodeCursor(date, id) : date \in {now, now + 1}, id \in 0..(Len(tickets) + 1)}

\* C37: every ticket in a listTickets answer belongs to the workspace named
\* in the path, and an answer has items only if the caller passed the
\* membership check for that workspace; this holds for every cursor,
\* including the nextCursor of a listing of another workspace.
C37_ListStaysInWorkspace ==
  /\ \A userId \in Callers, workspaceId \in WorkspaceIds(workspaces),
        sort \in {"createdAt", "updatedAt"}, cursor \in AnyCursors :
       LET r == ListTicketsHandler(tickets, workspaces, members, userId, workspaceId,
                                   Query("false", WalkLimit, sort, cursor))
       IN IF RequireWorkspaceMember(workspaces, members, workspaceId, userId).status = 200
          THEN /\ r.status = 200
               /\ \A k \in 1..Len(r.items) : tickets[r.items[k]].workspaceId = workspaceId
          ELSE r.status \in {403, 404}
  /\ (resp.op = "listTickets" /\ resp.status = 200) =>
       /\ RequireWorkspaceMember(workspaces, members, resp.arg, resp.caller).status = 200
       /\ \A k \in 1..Len(resp.items) : tickets[resp.items[k]].workspaceId = resp.arg

\* C37 witness: a workspace has just been listed with the nextCursor that a
\* listing of another workspace handed out, and the answer has an item.
C37_Witness ==
  /\ resp.op = "listTickets" /\ resp.status = 200
  /\ Len(resp.items) >= 1
  /\ ParseCursor(resp.query.cursor).ok
  /\ ParseCursor(resp.query.cursor).id \in 1..Len(tickets)
  /\ tickets[ParseCursor(resp.query.cursor).id].workspaceId # resp.arg

-----------------------------------------------------------------------------
(* The signup handler step by step: user, tenant lookup, tenant, memberships *)

\* Visitors of one domain that has no tenant yet.
NewDomainEmails == {Email("agent", "Support.Local"), Email("agent2", "support.local")}

\* Workspace_domain_key: the insert of a workspace is accepted only if no
\* workspace has its domain.
WorkspaceDomainKey(ws, domain) == FindWorkspaceByDomain(ws, domain) = NoRow

\* POST /auth/signup up to user.create.
ProvisionUser(c) ==
  /\ req[c].pc = "idle"
  /\ \E email \in NewDomainEmails :
       IF FindUserByEmail(users, email) # NoRow
       THEN /\ resp' = SignupHandler(users, workspaces, members, sessions, tokenCount, now,
                                     email, MEMBER_PASSWORD).resp
            /\ UNCHANGED <<users, req>>
       ELSE /\ users' = Append(users, [email |-> email,
                                       passwordHash |-> HashPassword(MEMBER_PASSWORD),
                                       isSupportAgent |-> IsSupportAgentDomain(email)])
            /\ req' = [req EXCEPT ![c] = [pc |-> "user", token |-> NoToken, session |-> NoRow,
                                          userId |-> Len(users) + 1, email |-> email,
                                          workspace |-> NoRow]]
            /\ UNCHANGED resp
  /\ UNCHANGED <<workspaces, members, tickets, sessions, now, tokenCount, okCount>>

\* prisma.workspace.findUnique({where: {domain}})
ProvisionFind(c) ==
  /\ req[c].pc = "user"
  /\ req' = [req EXCEPT ![c].pc = "looked",
                        ![c].workspace =
                           FindWorkspaceByDomain(workspaces, ParseEmailDomain(req[c].email))]
  /\ UNCHANGED <<users, workspaces, members, tickets, sessions, now, tokenCount, resp, okCount>>

\* prisma.workspace.create when the lookup found none; the unique index
\* refuses it when the domain got a workspace since, and the handler throws.
ProvisionTenant(c) ==
  /\ req[c].pc = "looked"
  /\ LET domain == ParseEmailDomain(req[c].email)
     IN IF req[c].workspace # NoRow
        THEN /\ req' = [req EXCEPT ![c].pc = "tenant"]
             /\ UNCHANGED <<workspaces, resp>>
        ELSE IF WorkspaceDomainKey(workspaces, domain)
        THEN /\ workspaces' = Append(workspaces,
                                     [name |-> domain, domain |-> domain, kind |-> "CUSTOMER"])
             /\ req' = [req EXCEPT ![c].pc = "tenant", ![c].workspace = Len(workspaces) + 1]
             /\ UNCHANGED resp
        ELSE /\ resp' \in FailedResponses("signup", 0)
             /\ req' = [req EXCEPT ![c] = NoRequest]
             /\ UNCHANGED workspaces
  /\ UNCHANGED <<users, members, tickets, sessions, now, tokenCount, okCount>>

\* workspaceMember.create for the tenant and, for an allow-listed domain,
\* for the SUPPORT_OPS workspace; then setAuthCookiesAndRespond.
ProvisionMember(c) ==
  /\ req[c].pc = "tenant"
  /\ LET uid == req[c].userId
         ms1 == members \cup {Member(req[c].workspace, uid, "MEMBER")}
         supportOps == FindSupportOps(workspaces)
         refreshToken == GenerateRefreshToken(tokenCount)
         out == SetAuthCookiesAndRespond(sessions, "signup", 0, uid, refreshToken,
                                         HashRefreshToken(refreshToken), 201, now)
     IN /\ members' = IF IsSupportAgentDomain(req[c].email) /\ supportOps # NoRow
                      THEN ms1 \cup {Member(supportOps, uid, "ADMIN")}
                      ELSE ms1
        /\ sessions' = out.sessions
        /\ tokenCount' = tokenCount + 1
        /\ resp' = out.resp
  /\ req' = [req EXCEPT ![c] = NoRequest]
  /\ UNCHANGED <<users, workspaces, tickets, now, okCount>>

ProvisionNext ==
  \/ \E c \in 1..NumClients : ProvisionUser(c)
  \/ \E c \in 1..NumClients : ProvisionFind(c)
  \/ \E c \in 1..NumClients : ProvisionTenant(c)
  \/ \E c \in 1..NumClients : ProvisionMember(c)

ProvisionSpec == Init /\ [][ProvisionNext]_vars

\* C38: there is at most one tenant per domain, and, once no signup is in
\* flight, every user a signup created has a MEMBER membership in the
\* CUSTOMER tenant of its email domain.
C38_EveryUserHasTenant ==
  /\ \A w1, w2 \in 1..Len(workspaces) :
       (workspaces[w1].domain = workspaces[w2].domain /\ workspaces[w1].domain # NoDomain)
         => w1 = w2
  /\ (\A c \in 1..NumClients : req[c].pc = "idle") =>
       \A uid \in (Len(SeedUsers) + 1)..Len(users) :
         \E w \in 1..Len(workspaces) :
           /\ workspaces[w].kind = "CUSTOMER"
           /\ workspaces[w].domain = ParseEmailDomain(users[uid].email)
           /\ Member(w, uid, "MEMBER") \in members

-----------------------------------------------------------------------------
(* Agents who signed up: members of their own tenant and ADMINs of SUPPORT_OPS *)

\* The users that signups created.
SignedUpUsers == (Len(SeedUsers) + 1)..Len(users)

AgentSignup ==
  \E email \in NewDomainEmails :
    LET out == SignupHandler(users, workspaces, members, sessions, tokenCount, now,
                             email, MEMBER_PASSWORD)
    IN /\ Len(out.sessions) <= MaxSessions
       /\ users' = out.users
       /\ workspaces' = out.workspaces
       /\ members' = out.members
       /\ sessions' = out.sessions
       /\ tokenCount' = out.tokenCount
       /\ resp' = out.resp
       /\ UNCHANGED <<tickets, now, okCount, req>>

\* The operators change a signed-up agent's role in the SUPPORT_OPS workspace.
AgentSetRole ==
  \E userId \in SignedUpUsers, role \in {"ADMIN", "MEMBER"} :
    /\ members' = UpsertMember(members, Member(SupportOpsId, userId, role))
    /\ resp' = NoResponse
    /\ UNCHANGED <<users, workspaces, tickets, sessions, now, tokenCount, okCount, req>>

\* A signed-up user opens a ticket in a tenant.
AgentCreate ==
  \E userId \in SignedUpUsers, workspaceId \in 1..Len(workspaces) :
    LET out == CreateTicketHandler(tickets, workspaces, members, now, userId, workspaceId,
                                   "Cannot log in")
    IN /\ out.resp.status = 201
       /\ workspaces[workspaceId].kind = "CUSTOMER"
       /\ workspaces[workspaceId].domain = ParseEmailDomain(users[userId].email)
       /\ Len(out.tickets) <= MaxTickets
       /\ tickets' = out.tickets
       /\ resp' = out.resp
       /\ UNCHANGED <<users, workspaces, members, sessions, now, tokenCount, okCount, req>>

AgentPatch ==
  \E userId \in SignedUpUsers, ticketId \in 1..Len(tickets),
     status \in {"CLOSED", "OPEN"} :
    LET out == PatchHandler(tickets, workspaces, members, now, userId, ticketId,
                            [status |-> status, priority |-> Absent])
    IN /\ tickets' = out.tickets
       /\ resp' = out.resp
       /\ UNCHANGED <<users, workspaces, members, sessions, now, tokenCount, okCount, req>>

AgentReply ==
  \E userId \in SignedUpUsers, ticketId \in 1..Len(tickets) :
    LET out == ReplyHandler(tickets, workspaces, members, now, userId, ticketId, "Any news?")
    IN /\ MessageRows(out.tickets) <= MaxMessages
       /\ tickets' = out.tickets
       /\ resp' = out.resp
       /\ UNCHANGED <<users, workspaces, members, sessions, now, tokenCount, okCount, req>>

AgentGet ==
  \E userId \in SignedUpUsers, ticketId \in 1..Len(tickets) :
    /\ resp' = GetTicketHandler(tickets, workspaces, members, userId, ticketId)
    /\ UNCHANGED <<users, workspaces, members, tickets, sessions, now, tokenCount, okCount, req>>

AgentList ==
  \E userId \in SignedUpUsers, workspaceId \in 1..Len(workspaces) :
    /\ resp' = ListTicketsHandler(tickets, workspaces, members, userId, workspaceId,
                                  Query("false", AbsentParam, Absent, EmptyString))
    /\ UNCHANGED <<users, workspaces, members, tickets, sessions, now, tokenCount, okCount, req>>

AgentNext ==
  AgentSignup \/ AgentSetRole \/ AgentCreate \/ AgentPatch \/ AgentReply \/ AgentGet \/ AgentList

AgentSpec == Init /\ [][AgentNext]_vars

\* An elevated agent who holds a MEMBER row in the CUSTOMER tenant.
AgentWithMemberRow(userId, workspaceId) ==
  /\ Elevated(userId)
  /\ workspaces[workspaceId].kind = "CUSTOMER"
  /\ Member(workspaceId, userId, "MEMBER") \in members

\* C39: an elevated agent with a MEMBER row in a CUSTOMER tenant is resolved
\* as ADMIN there.  resolveMembership answers ADMIN; listTickets without
\* mine=true returns the tenant's tickets whoever created them; the agent
\* reads and patches tickets created by others and replies to CLOSED ones;
\* no request changes the stored MEMBER row.
C39_SynthesizedRoleWins ==
  /\ [](\A userId \in 1..Len(users), workspaceId \in 1..Len(workspaces) :
          AgentWithMemberRow(userId, workspaceId) =>
            /\ RequireWorkspaceMember(workspaces, members, workspaceId, userId) =
                 [status |-> 200, role |-> "ADMIN"]
            /\ LET r == ListTicketsHandler(tickets, workspaces, members, userId, workspaceId,
                                           Query("false", AbsentParam, Absent, EmptyString))
               IN /\ r.status = 200
                  /\ Range(r.items) = {i \in 1..Len(tickets) : tickets[i].workspaceId = workspaceId}
            /\ \A ticketId \in 1..Len(tickets) :
                 tickets[ticketId].workspaceId = workspaceId =>
                   /\ GetNow(userId, ticketId).status = 200
                   /\ PatchNow(userId, ticketId, [status |-> "PENDING", priority |-> Absent]).resp.status = 200
                   /\ ReplyNow(userId, ticketId, "Any news?").resp.status = 201)
  /\ [][(AgentPatch \/ AgentReply \/ AgentGet \/ AgentList \/ AgentCreate) =>
          members' = members]_vars

\* C39 witness: an elevated agent who holds the MEMBER row of their own
\* signup has just replied to a CLOSED ticket that somebody else created in
\* that tenant.
C39_Witness ==
  /\ resp.op = "reply" /\ resp.status = 201
  /\ tickets[resp.arg].status = "CLOSED"
  /\ CreatorOf(resp.arg) # resp.caller
  /\ AgentWithMemberRow(resp.caller, TenantOf(resp.arg))
  /\ users[resp.caller].email \in NewDomainEmails

-----------------------------------------------------------------------------
(* Clients that keep the access token of an earlier response *)

\* POST /auth/refresh with a refresh token that was issued.
KeptRefresh ==
  \E tok \in 1..tokenCount :
    LET out == RefreshHandler(sessions, tokenCount, now, tok)
    IN /\ Len(out.sessions) <= MaxSessions
       /\ sessions' = out.sessions
       /\ tokenCount' = out.tokenCount
       /\ resp' = out.resp
       /\ UNCHANGED <<users, workspaces, members, tickets, now, okCount, req>>

\* POST /auth/logout with a refresh token that was issued.
KeptLogout ==
  \E tok \in 1..tokenCount :
    LET out == LogoutHandler(sessions, now, tok)
    IN /\ sessions' = out.sessions
       /\ resp' = out.resp
       /\ UNCHANGED <<users, workspaces, members, tickets, now, tokenCount, okCount, req>>

\* The first client stores the access_token cookie of the response it just got.
KeepAccessToken(c) ==
  /\ c = 1
  /\ resp.access[1] = "set"
  /\ req[c].pc = "idle"
  /\ req' = [req EXCEPT ![c] = [pc |-> "kept", token |-> NoToken, session |-> NoRow,
                                userId |-> 0, access |-> HeldAccessToken(resp)]]
  /\ UNCHANGED <<users, workspaces, members, tickets, sessions, now, tokenCount, resp, okCount>>

\* GET /me with the stored token, whatever has happened to the session since.
ReplayAccessToken(c) ==
  /\ req[c].pc = "kept"
  /\ resp' = MeHandler(users, now, req[c].access)
  /\ UNCHANGED <<users, workspaces, members, tickets, sessions, now, tokenCount, okCount, req>>

KeptNext ==
  \/ AuthSignup
  \/ AuthLogin
  \/ KeptRefresh
  \/ KeptLogout
  \/ DeleteUser
  \/ Tick
  \/ \E c \in 1..NumClients : KeepAccessToken(c)
  \/ \E c \in 1..NumClients : ReplayAccessToken(c)

KeptSpec == Init /\ [][KeptNext]_vars

KeptTokens == {req[c].access : c \in {d \in 1..NumClients : req[d].pc = "kept"}}

====
